---- MODULE Spec2Model ----
(***************************************************************************)
(* SCORM 1.2 runtime bridge of the offline course player                   *)
(* (src/src/lmsAPIService.ts): the module-level session state, the eight   *)
(* API operations of the LMS object, the two service functions that open   *)
(* and close a session, and the completion callbacks of the background     *)
(* fetch and persist promises.                                             *)
(*                                                                         *)
(* The API operations are synchronous; the callbacks attached with         *)
(* .then/.catch run later, as separate steps, in any order.  Content keeps *)
(* its reference to the LMS object after window.API is cleared, so the     *)
(* operations can be called in every state.                                *)
(***************************************************************************)
EXTENDS Bags, FiniteSets, Integers, Sequences, TLC

VARIABLES
    lmsData,          \* the data model object: own keys -> string values
    currentCourseId,  \* string or NULL
    currentUserId,    \* string or NULL
    lastError,        \* the last-error register
    isInitialized,    \* the initialized flag
    apiInstalled,     \* window.API refers to the LMS object
    pendingFetch,     \* bag of fetchScormData promises not yet settled
    pendingPersist,   \* number of persistScormData promises not yet settled
    phase,            \* observer: session state of the documented state machine
    written,          \* observer: element -> value of its last successful LMSSetValue
                      \*           in the current session
    call              \* observer: the step just taken, its arguments and result

\* Package store and one downloadCourse call for one course
\* (opfsService: src/unnamed/part_001), and the service worker that serves
\* the stored files (src/unnamed/part_000)
VARIABLES
    opfsDir,          \* the directory 'scorm-courses' exists under the storage root
    storeDir,         \* the course directory exists
    storeDirs,        \* paths of the subdirectories of the course directory
    storeFiles,       \* path -> committed content of the files under the course directory
    dlPc,             \* position of the downloadCourse call
    dlOpen,           \* paths whose writable stream the call created and has not closed
    dlArchive,        \* index in Archives of the archive the server sends
    dlContentLength,  \* contentLength: the declared length, 0 when absent
    dlRemaining,      \* bytes of the response body not yet read
    dlReceived,       \* receivedLength
    dlManifest,       \* result of parseScormManifest, or NoManifest
    dlNextEntry,      \* index of the next entry of zip.files to visit
    dlExtracted,      \* extractedFiles
    dlProgress,       \* observer: the values passed to onProgress, in order
    dlStep,           \* observer: the pipeline step just taken
    dlFailedAt,       \* observer: the position at which the call failed
    dlPrev,           \* observer: the archive of the call before, when it
                      \*           resolved and nothing was deleted since, else 0
    dlBefore,         \* observer: the files and directories at the call's start
    swResponse        \* observer: the last response of the service worker

\* CourseLibrary (src/unnamed/part_002): component state and the
\* handleDownload calls in flight
VARIABLES
    downloadStatuses, \* course id -> status shown, "none" before the first load
    isLoading,        \* loadCourses has not finished
    isSyncing,        \* syncCourses is running
    newStatuses,      \* syncCourses: course id -> status read so far, "unread"
    coursePresent,    \* course id -> the course directory exists in the store
    buttonCalls,      \* course id -> handleDownload calls started from the
                      \*              course's button and not settled
    bulk              \* the handleDownloadAll invocation: the course whose
                      \* handleDownload it awaits and the courses still to come

\* The files and directories next to the course directory under
\* 'scorm-courses', and one saveMetadata call (src/unnamed/part_001)
VARIABLES
    rootFiles,        \* name -> committed content of metadata.json and
                      \*         categories.json, "absent" when the file is missing
    otherCourse,      \* the directory of another downloaded course exists
    smPc,             \* position of the saveMetadata call
    smOpen,           \* names whose writable stream the call created and has
                      \* not closed
    smArg             \* the course list the call was given

\* One call of parseScormManifest (src/unnamed/part_001)
VARIABLES
    manifestDoc,      \* parser.parse(manifestXml): the parsed document
    manifestResult    \* what the call returned or threw, "pending" before

\* CoursePlayer (src/unnamed/part_002), one component instance at a time,
\* and the pipwerks wrapper of the hosting page (src/public/scormWrapper.js)
VARIABLES
    mounted,             \* a CoursePlayer instance is mounted
    paramId,             \* id: the route parameter
    playerCourse,        \* course: "null", or what getCourseContent resolved with
    playerIsLoading,     \* isLoading
    pendingLoads,        \* loadCourseData calls of the instance not yet settled
    frame,               \* the iframe: "none" while not rendered, "blank" without
                         \* src, "loading" from the src assignment to its event,
                         \* then "loaded" or "failed"
    scormApiInitialized, \* scormApiInitialized
    scormContentLoaded,  \* scormContentLoaded
    wrapperCleanup,      \* the last run of the wrapper effect returned its cleanup
    effects,             \* effect cleanups and bodies of the current commit
                         \* still to run, in order
    wrapperPc,           \* position inside pipwerks init / quit, "idle" outside
    pipwerks,            \* pipwerks.SCORM: version, API.handle, connection.isActive,
                         \* data.completionStatus
    playerStep,          \* observer: the player step just taken
    loadSeen             \* observer: the load event of the src last assigned
                         \*           has been observed

\* One call of pipwerks.SCORM.API.find (src/public/scormWrapper.js)
VARIABLES
    windows,          \* window -> its parent and the API objects it carries
    findVersion,      \* scorm.version
    findWin,          \* win
    findAttempts,     \* findAttempts
    findPc,           \* "idle" outside a call, "called" inside the loop,
                      \* "returned" after the return
    findApi,          \* the value returned
    findGiven         \* observer: scorm.version when the call began

bridgeVars == <<lmsData, currentCourseId, currentUserId, lastError, isInitialized,
                apiInstalled, pendingFetch, pendingPersist, phase, written, call>>

storeVars == <<opfsDir, storeDir, storeDirs, storeFiles>>

dlVars == <<dlPc, dlOpen, dlArchive, dlContentLength, dlRemaining, dlReceived, dlManifest,
            dlNextEntry, dlExtracted, dlProgress, dlStep, dlFailedAt,
            dlPrev, dlBefore>>

libVars == <<downloadStatuses, isLoading, isSyncing, newStatuses, coursePresent,
             buttonCalls, bulk>>

catalogueVars == <<rootFiles, otherCourse, smPc, smOpen, smArg>>

manifestVars == <<manifestDoc, manifestResult>>

findVars == <<windows, findVersion, findWin, findAttempts, findPc, findApi, findGiven>>

playerVars == <<mounted, paramId, playerCourse, playerIsLoading, pendingLoads, frame,
                scormApiInitialized, scormContentLoaded, wrapperCleanup, effects,
                wrapperPc, pipwerks, playerStep, loadSeen>>

vars == <<bridgeVars, storeVars, dlVars, swResponse, libVars, playerVars,
          catalogueVars, manifestVars, findVars>>

----------------------------------------------------------------------------
(* Bounds *)

MaxFetch == 1      \* fetch promises in flight at once
MaxPersist == 1    \* persist promises in flight at once

----------------------------------------------------------------------------
(* Values *)

NULL == "<null>"
THROWN == "<TypeError>"   \* the operation did not return: it threw
FUNCTION == "<function>"  \* the operation returned a function object, not a string

\* a truthiness test that takes only null for falsy
FalsyNullOnly(x) == x = NULL

\* !x for a string-or-null x
Falsy(x) == x = NULL \/ x = ""

CourseIds == {"", "c1"}
UserIds == {"", "u1"}

\* a read-only list that leaves out the upper score bound
readOnlyElementsShort ==
    {"cmi.core.student_id", "cmi.core.student_name", "cmi.core.credit",
     "cmi.core.lesson_mode", "cmi.launch_data", "cmi.core.score.min"}

readOnlyElements ==
    {"cmi.core.student_id", "cmi.core.student_name", "cmi.core.credit",
     "cmi.core.lesson_mode", "cmi.launch_data", "cmi.core.score.min",
     "cmi.core.score.max"}

\* element names content passes to LMSGetValue / LMSSetValue
Elements ==
    {"cmi.core.student_id", "cmi.core.student_name", "cmi.core.credit",
     "cmi.core.lesson_mode", "cmi.launch_data", "cmi.core.score.min",
     "cmi.core.score.max", "cmi.core.lesson_status", "hasOwnProperty",
     "__proto__"}

\* value strings content passes to LMSSetValue
Values == {"completed", ""}

ErrorCodes == {"0", "101", "301", "401", "403"}

\* error-code strings content passes to LMSGetErrorString / LMSGetDiagnostic
ErrorCodeArgs == {"0", "301", "999", "toString"}

\* the own keys of the errorStrings table
errorStrings ==
    [c \in {"0", "101", "201", "301", "401", "403"} |->
        CASE c = "0" -> "No Error"
          [] c = "101" -> "General Exception"
          [] c = "201" -> "Invalid argument error"
          [] c = "301" -> "Not initialized"
          [] c = "401" -> "Not implemented error / Undefined Data Model Element"
          [] c = "403" -> "Element is read only"]

\* names every plain object inherits as methods from Object.prototype
InheritedMethods ==
    {"toString", "valueOf", "constructor", "hasOwnProperty", "isPrototypeOf",
     "propertyIsEnumerable", "toLocaleString"}

\* 'LMS Diagnostic information for error code ' + errorCode
DiagnosticString(errorCode) ==
    CASE errorCode = "0" -> "LMS Diagnostic information for error code 0"
      [] errorCode = "301" -> "LMS Diagnostic information for error code 301"
      [] errorCode = "999" -> "LMS Diagnostic information for error code 999"
      [] errorCode = "toString" -> "LMS Diagnostic information for error code toString"

----------------------------------------------------------------------------
(* Plain JavaScript objects with string values *)

EmptyObject == [k \in {} |-> ""]

\* Object.keys(obj)
Keys(obj) == DOMAIN obj

\* obj.hasOwnProperty resolves to the built-in unless an own key shadows it
HasOwnPropertyCallable(obj) == "hasOwnProperty" \notin DOMAIN obj

\* obj[e] = v: "__proto__" reaches the prototype setter, which ignores strings
SetProperty(obj, e, v) ==
    IF e = "__proto__"
    THEN obj
    ELSE [k \in (DOMAIN obj) \cup {e} |-> IF k = e THEN v ELSE obj[k]]

\* obj[e] || dflt, for the keys the bridge reads this way
GetOr(obj, e, dflt) ==
    IF e \in DOMAIN obj /\ obj[e] # "" THEN obj[e] ELSE dflt

----------------------------------------------------------------------------
(* Backend helpers *)

fetchScormData(courseId, userId) ==
    [k \in {"cmi.core.student_id", "cmi.core.student_name",
            "cmi.core.lesson_location", "cmi.core.credit",
            "cmi.core.lesson_status", "cmi.core.entry", "cmi.core.score.raw",
            "cmi.core.score.min", "cmi.core.score.max", "cmi.core.total_time",
            "cmi.core.lesson_mode", "cmi.suspend_data", "cmi.launch_data",
            "cmi.comments"} |->
        CASE k = "cmi.core.student_id" -> userId
          [] k = "cmi.core.student_name" -> "LMS User"
          [] k = "cmi.core.credit" -> "credit"
          [] k = "cmi.core.lesson_status" -> "not attempted"
          [] k = "cmi.core.entry" -> "ab-initio"
          [] k = "cmi.core.score.min" -> "0"
          [] k = "cmi.core.score.max" -> "100"
          [] k = "cmi.core.total_time" -> "00:00:00"
          [] k = "cmi.core.lesson_mode" -> "normal"
          [] OTHER -> ""]

\* the data model the fetch completion installs
LoadedData(data) ==
    IF GetOr(data, "cmi.core.entry", "") # "resume"
    THEN SetProperty(data, "cmi.core.lesson_status",
                     GetOr(data, "cmi.core.lesson_status", "incomplete"))
    ELSE data

\* the minimal defaults LMSInitialize seeds synchronously
DefaultData(userId) ==
    [k \in {"cmi.core.lesson_status", "cmi.core.student_id"} |->
        IF k = "cmi.core.lesson_status" THEN "incomplete" ELSE userId]

----------------------------------------------------------------------------
(* Observers *)

NoPersist == {}

Step(op, element, value, ret, reinit, persisted) ==
    [op |-> op, element |-> element, value |-> value, ret |-> ret,
     reinit |-> reinit, persisted |-> persisted]

PersistArgs(courseId, userId, data) ==
    {[course |-> courseId, user |-> userId, data |-> data]}

----------------------------------------------------------------------------
(* Package store, archives and progress arithmetic *)

nonBridgeVars == <<storeVars, dlVars, swResponse, libVars, playerVars, catalogueVars,
                   manifestVars, findVars>>

\* everything outside the store, the pipeline and the service worker
nonStoreVars == <<bridgeVars, libVars, playerVars, catalogueVars, manifestVars,
                  findVars>>

\* everything outside the course library
nonLibraryVars == <<bridgeVars, storeVars, dlVars, swResponse, playerVars,
                    catalogueVars, manifestVars, findVars>>

MaxBytes == 3      \* length of the response body in bytes

\* sizes of the chunks reader.read() delivers
ChunkSizes == {1, 2}

\* Number(response.headers.get('Content-Length')) || 0: absent or zero,
\* smaller than the body (a compressed transfer), and exact
DeclaredLengths == {0, 1, MaxBytes}

\* JavaScript numbers: the integers and Infinity
Num(n) == [inf |-> FALSE, n |-> n]
Infinity == [inf |-> TRUE, n |-> 0]

\* Math.round(a / b) for integers a >= 0, b > 0 (halves round up)
Round(a, b) == (2 * a + b) \div (2 * b)

\* Math.round((receivedLength / contentLength) * 50), receivedLength > 0
DownloadProgress(receivedLength, contentLength) ==
    IF contentLength = 0
    THEN Infinity
    ELSE Num(Round(receivedLength * 50, contentLength))

\* 50 + Math.round((extractedFiles / totalFiles) * 50)
ExtractProgress(extractedFiles, totalFiles) ==
    Num(50 + Round(extractedFiles * 50, totalFiles))

Entry(path, dir, content) == [path |-> path, dir |-> dir, content |-> content]

\* the archives the server can send: zip.files in archive order
Archives ==
    << \* a manifest and the launch file
       << Entry(<<"imsmanifest.xml">>, FALSE, "manifest-ok"),
          Entry(<<"index.html">>, FALSE, "html") >>,
       \* the same with a directory entry and the launch file under it
       << Entry(<<"content", "">>, TRUE, ""),
          Entry(<<"imsmanifest.xml">>, FALSE, "manifest-ok"),
          Entry(<<"content", "index.html">>, FALSE, "html") >>,
       \* no manifest
       << Entry(<<"index.html">>, FALSE, "html") >>,
       \* a manifest without a launch URL
       << Entry(<<"imsmanifest.xml">>, FALSE, "manifest-bad"),
          Entry(<<"index.html">>, FALSE, "html") >>,
       \* a root entry with the name of a record
       << Entry(<<"imsmanifest.xml">>, FALSE, "manifest-ok"),
          Entry(<<"course.json">>, FALSE, "json") >> >>

ArchiveIds == 1..Len(Archives)

\* Object.keys(zip.files).length
TotalFiles(a) == Len(Archives[a])

\* zip.file('imsmanifest.xml'): the entry of that exact name, or none
ManifestEntries(a) ==
    {i \in 1..Len(Archives[a]) :
        Archives[a][i].path = <<"imsmanifest.xml">> /\ ~Archives[a][i].dir}

NoManifest == [ok |-> FALSE, launchUrl |-> "", version |-> ""]

\* parseScormManifest on the manifest texts of the archives: a descriptor,
\* or NoManifest when it throws
parseScormManifest(manifestXml) ==
    IF manifestXml = "manifest-ok"
    THEN [ok |-> TRUE, launchUrl |-> "index.html", version |-> "1.2"]
    ELSE NoManifest

\* contents of the records the pipeline writes
PackageZip(a) == <<"package.zip", a>>
ManifestJson(m) == <<"manifest.json", m>>
CourseJson(m) == <<"course.json", m>>
FileBytes(c) == <<"bytes", c>>
EmptyFile == <<"bytes", "">>

NoFiles == [p \in {} |-> EmptyFile]

\* getFileHandle(name, {create: true}): the file exists afterwards, with the
\* content it had
Touch(files, path) ==
    IF path \in DOMAIN files THEN files
    ELSE [p \in (DOMAIN files) \cup {path} |-> IF p = path THEN EmptyFile ELSE files[p]]

\* a write that lands only in a file that did not exist
WriteFileOnce(files, path, content) ==
    [p \in (DOMAIN files) \cup {path} |->
        IF p = path THEN (IF path \in DOMAIN files THEN EmptyFile ELSE content)
        ELSE files[p]]

\* createWritable, write, close: the file holds the written content
WriteFile(files, path, content) ==
    [p \in (DOMAIN files) \cup {path} |-> IF p = path THEN content ELSE files[p]]

\* the directories getDirectoryHandle(.., {create: true}) creates along the
\* path of a file
ParentDirs(path) == {SubSeq(path, 1, i) : i \in 1..(Len(path) - 1)}

\* isCourseDownloaded(course.id): the course directory can be opened
isCourseDownloaded == opfsDir /\ storeDir

\* no call is running
NoSnapshot == [files |-> NoFiles, dirs |-> {}]

InitStore ==
    /\ opfsDir = FALSE
    /\ storeDir = FALSE
    /\ storeDirs = {}
    /\ storeFiles = NoFiles
    /\ dlOpen = {}
    /\ dlPc = "idle"
    /\ dlArchive = 1
    /\ dlContentLength = 0
    /\ dlRemaining = 0
    /\ dlReceived = 0
    /\ dlManifest = NoManifest
    /\ dlNextEntry = 1
    /\ dlExtracted = 0
    /\ dlProgress = <<>>
    /\ dlStep = "load"
    /\ dlFailedAt = "none"
    /\ dlPrev = 0
    /\ dlBefore = NoSnapshot
    /\ swResponse = [status |-> 0, body |-> EmptyFile, contentType |-> "",
                     request |-> <<>>, pathname |-> <<>>, fault |-> "none"]

----------------------------------------------------------------------------
(* CourseLibrary: the catalogue and the component state *)

\* the courses of the catalogue, in list order
LibCourses == <<"c1", "c2">>
LibCourseIds == {LibCourses[i] : i \in DOMAIN LibCourses}

MaxCalls == 2      \* handleDownload calls per course started from its button

NoBulk == [current |-> "none", rest |-> <<>>]

\* isDownloaded ? 'downloaded' : 'not-downloaded'
PresenceStatus(c) ==
    IF coursePresent[c] THEN "downloaded" ELSE "not-downloaded"

\* downloadCourse calls in flight for a course
InFlight(c) ==
    buttonCalls[c] + (IF bulk.current = c THEN 1 ELSE 0)

\* courses.filter(status === 'not-downloaded'), in list order
RECURSIVE NotDownloaded(_)
NotDownloaded(i) ==
    IF i > Len(LibCourses) THEN <<>>
    ELSE (IF downloadStatuses[LibCourses[i]] = "not-downloaded"
          THEN <<LibCourses[i]>> ELSE <<>>) \o NotDownloaded(i + 1)

InitLibrary ==
    /\ downloadStatuses = [c \in LibCourseIds |-> "none"]
    /\ isLoading = TRUE
    /\ isSyncing = FALSE
    /\ newStatuses = [c \in LibCourseIds |-> "unread"]
    /\ coursePresent = [c \in LibCourseIds |-> FALSE]
    /\ buttonCalls = [c \in LibCourseIds |-> 0]
    /\ bulk = NoBulk

----------------------------------------------------------------------------
(* The catalogue files: constants and initial state *)

METADATA_FILE == "metadata.json"
CATEGORIES_FILE == "categories.json"

\* the id of a second course of the catalogue
OtherCourseId == "c2"

\* course lists saveMetadata is called with
CourseLists == {"v1", "v2"}

InitCatalogue ==
    /\ rootFiles = [n \in {METADATA_FILE, CATEGORIES_FILE} |-> "absent"]
    /\ otherCourse = FALSE
    /\ smPc = "idle"
    /\ smOpen = {}
    /\ smArg = "v1"

----------------------------------------------------------------------------
(* CoursePlayer: constants and initial state *)

\* values of the route parameter id; "" stands for a missing parameter
PlayerIds == {"", "c1", "c2"}

\* userId of the mount effect
PlayerUserId == "TEMPORARY_USER_ID"

\* what getCourseContent resolves with: null, a record whose manifest
\* has no launchUrl, a record with manifest and launchUrl
CourseData == {"null", "noLaunchUrl", "course"}

MaxLoads == 2      \* loadCourseData calls of one instance in flight at once

\* pipwerks.SCORM as the script defines it
InitPipwerks ==
    [version |-> "null", handle |-> FALSE, isActive |-> FALSE,
     completionStatus |-> NULL]

InitPlayer ==
    /\ mounted = FALSE
    /\ paramId = ""
    /\ playerCourse = "null"
    /\ playerIsLoading = TRUE
    /\ pendingLoads = 0
    /\ frame = "none"
    /\ scormApiInitialized = FALSE
    /\ scormContentLoaded = FALSE
    /\ wrapperCleanup = FALSE
    /\ effects = <<>>
    /\ wrapperPc = "idle"
    /\ pipwerks = InitPipwerks
    /\ playerStep = "none"
    /\ loadSeen = FALSE

----------------------------------------------------------------------------
(* parseScormManifest on the parsed document *)

MaxItems == 3      \* item elements of the first organization

\* values of an item's identifierref attribute, "" when it has none
ItemRefs == {"", "r1", "r2"}

\* an organization's item elements in document order, each with its
\* nesting depth: the first is at depth 1, and an element is at most one
\* level deeper than the element before it
IsForest(s) ==
    /\ (Len(s) > 0 => s[1].depth = 1)
    /\ \A i \in 2..Len(s) : s[i].depth <= s[i - 1].depth + 1

Forests ==
    UNION {{s \in [1..n -> [depth : 1..MaxItems, ref : ItemRefs]] : IsForest(s)} :
              n \in 0..MaxItems}

\* the items of the second organization, when the document has one
SecondItems == <<[depth |-> 1, ref |-> "r2"]>>

Resource(identifier, href) == [identifier |-> identifier, href |-> href]

\* manifest.resources.resource as a list; <<>> when the section is missing
ResourceLists ==
    {<<>>,
     <<Resource("r1", "a.html")>>,
     <<Resource("r1", "")>>,
     <<Resource("r2", "b.html")>>,
     <<Resource("r1", "a.html"), Resource("r2", "b.html")>>,
     <<Resource("r2", ""), Resource("r2", "b.html"), Resource("r1", "a.html")>>}

\* the text of the schemaversion element, one string per character
Declared(text) == [declared |-> TRUE, text |-> text]

\* a manifest without metadata or without schemaversion element
Undeclared == [declared |-> FALSE, text |-> <<>>]

\* "2004 4th Edition"
FourthEdition ==
    <<"2", "0", "0", "4", " ", "4", "t", "h", " ",
      "E", "d", "i", "t", "i", "o", "n">>

\* metadata.schemaversion in the documents of Manifests
SchemaVersions == {Undeclared, Declared(FourthEdition)}

\* the default attribute of organizations, "" when absent
OrgDefaults == {"", "o1", "o2", "oX"}

Document(root, sv, orgs, dflt, items, second, resources) ==
    [root |-> root, schemaversion |-> sv, organizations |-> orgs, default |-> dflt,
     items |-> items, second |-> second, resources |-> resources]

\* a document without manifest root
NoRoot == Document(FALSE, Undeclared, FALSE, "", <<>>, FALSE, <<>>)

Manifests ==
    {NoRoot}
    \cup {Document(TRUE, sv, FALSE, "", <<>>, FALSE, r) :
              sv \in SchemaVersions, r \in ResourceLists}
    \cup {Document(TRUE, d[1], TRUE, d[2], d[3], d[4], d[5]) :
              d \in SchemaVersions \X OrgDefaults \X Forests \X BOOLEAN \X ResourceLists}

\* the elements of a set of numbers in ascending order
Ascending(S) ==
    [k \in 1..Cardinality(S) |->
        CHOOSE x \in S : Cardinality({y \in S : y < x}) = k - 1]

\* organization.item: the indices of the items at depth 1
TopItems(s) == Ascending({i \in 1..Len(s) : s[i].depth = 1})

\* item.item: the indices of the items directly below item i
Children(s, i) ==
    Ascending({j \in (i + 1)..Len(s) :
                  /\ s[j].depth = s[i].depth + 1
                  /\ \A k \in (i + 1)..j : s[k].depth > s[i].depth})

RECURSIVE findLaunchItem(_, _)
RECURSIVE findLaunchItemFrom(_, _, _)

\* the for loop of findLaunchItem from position k of the array
findLaunchItemFrom(s, items, k) ==
    IF k > Len(items) THEN 0
    ELSE IF s[items[k]].ref # "" THEN items[k]
    ELSE LET found == IF Children(s, items[k]) # <<>>
                      THEN findLaunchItem(s, Children(s, items[k]))
                      ELSE 0
         IN  IF found # 0 THEN found ELSE findLaunchItemFrom(s, items, k + 1)

\* findLaunchItem(items), 0 for null: the parser hands over a single
\* child element as an object and several as an array
findLaunchItem(s, items) ==
    IF Len(items) = 1
    THEN IF s[items[1]].ref # "" THEN items[1] ELSE 0
    ELSE findLaunchItemFrom(s, items, 1)

\* orgsArray
Organizations(doc) ==
    <<[identifier |-> "o1", items |-> doc.items]>>
    \o (IF doc.second THEN <<[identifier |-> "o2", items |-> SecondItems]>> ELSE <<>>)

\* defaultOrganization: the one the default attribute names, else the first
DefaultOrganization(doc) ==
    LET orgs == Organizations(doc)
        named == {i \in 1..Len(orgs) : orgs[i].identifier = doc.default}
    IN  IF doc.default # "" /\ named # {}
        THEN orgs[CHOOSE i \in named : \A j \in named : i <= j]
        ELSE orgs[1]

\* resources.find(res => res['@_identifier'] === resourceId), then
\* launchResource['@_href'] || ''
LaunchHref(resources, resourceId) ==
    LET hits == {i \in 1..Len(resources) : resources[i].identifier = resourceId}
    IN  IF hits = {} THEN ""
        ELSE resources[CHOOSE i \in hits : \A j \in hits : i <= j].href

Digits == {"0", "1", "2", "3", "4", "5", "6", "7", "8", "9"}

UpperCase ==
    <<"A", "B", "C", "D", "E", "F", "G", "H", "I", "J", "K", "L", "M",
      "N", "O", "P", "Q", "R", "S", "T", "U", "V", "W", "X", "Y", "Z">>
LowerCase ==
    <<"a", "b", "c", "d", "e", "f", "g", "h", "i", "j", "k", "l", "m",
      "n", "o", "p", "q", "r", "s", "t", "u", "v", "w", "x", "y", "z">>

\* String.prototype.toLowerCase
toLowerCase(s) ==
    [i \in 1..Len(s) |->
        IF \E k \in 1..26 : UpperCase[k] = s[i]
        THEN LowerCase[CHOOSE k \in 1..26 : UpperCase[k] = s[i]]
        ELSE s[i]]

\* String.prototype.includes
includes(s, t) ==
    \E i \in 0..(Len(s) - Len(t)) : SubSeq(s, i + 1, i + Len(t)) = t

\* the parser trims the text of an element
Trim(s) ==
    LET inner == {i \in 1..Len(s) : s[i] # " "}
    IN  IF inner = {} THEN <<>>
        ELSE SubSeq(s, CHOOSE i \in inner : \A j \in inner : i <= j,
                       CHOOSE i \in inner : \A j \in inner : j <= i)

\* decimal notation: digits with at most one point
IsDecimal(s) ==
    /\ \A i \in 1..Len(s) : s[i] \in Digits \cup {"."}
    /\ Cardinality({i \in 1..Len(s) : s[i] = "."}) <= 1
    /\ \E i \in 1..Len(s) : s[i] \in Digits

\* String(Number(s)) for decimal notation: no leading zeros before the
\* integer part, no trailing zeros after the point
NumberString(s) ==
    LET points == {i \in 1..Len(s) : s[i] = "."}
        point == IF points = {} THEN Len(s) + 1 ELSE CHOOSE i \in points : TRUE
        intSig == {i \in 1..(point - 1) : s[i] # "0"}
        intPart == IF intSig = {} THEN <<"0">>
                   ELSE SubSeq(s, CHOOSE i \in intSig : \A j \in intSig : i <= j,
                                  point - 1)
        fracSig == {i \in (point + 1)..Len(s) : s[i] # "0"}
        fracPart == IF fracSig = {} THEN <<>>
                    ELSE <<".">> \o SubSeq(s, point + 1,
                                      CHOOSE i \in fracSig : \A j \in fracSig : j <= i)
    IN  intPart \o fracPart

JsUndefined == [type |-> "undefined", text |-> <<>>]

\* manifest.metadata?.schemaversion as the parser hands it over: the
\* trimmed text, as a number when it is in decimal notation
SchemaVersionValue(declaration) ==
    IF ~declaration.declared THEN JsUndefined
    ELSE LET text == Trim(declaration.text)
         IN  IF IsDecimal(text)
             THEN [type |-> "number", text |-> NumberString(text)]
             ELSE [type |-> "string", text |-> text]

\* if (schemaVersion): undefined, "" and 0 do not pass
Truthy(value) ==
    /\ value.type # "undefined"
    /\ value.type = "string" => value.text # <<>>
    /\ value.type = "number" => value.text # <<"0">>

Token12 == <<"1", ".", "2">>
Token2004 == <<"2", "0", "0", "4">>
TokenCam13 == <<"c", "a", "m", " ", "1", ".", "3">>
TokenCam13Joined == <<"c", "a", "m", "1", ".", "3">>

\* version detection that compares the text as it is written
DetectVersionCaseSensitive(schemaVersion) ==
    IF Truthy(schemaVersion)
    THEN LET svStr == schemaVersion.text
         IN  IF includes(svStr, Token12) THEN "1.2"
             ELSE IF \/ includes(svStr, Token2004)
                     \/ includes(svStr, TokenCam13)
                     \/ includes(svStr, TokenCam13Joined)
                  THEN "2004"
                  ELSE "1.2"
    ELSE "1.2"

\* version detection: String(schemaVersion).toLowerCase() against the
\* known tokens, '1.2' first
DetectVersion(schemaVersion) ==
    IF Truthy(schemaVersion)
    THEN LET svStr == toLowerCase(schemaVersion.text)
         IN  IF includes(svStr, Token12) THEN "1.2"
             ELSE IF \/ includes(svStr, Token2004)
                     \/ includes(svStr, TokenCam13)
                     \/ includes(svStr, TokenCam13Joined)
                  THEN "2004"
                  ELSE "1.2"
    ELSE "1.2"

ManifestError(reason) ==
    [ok |-> FALSE, reason |-> reason, launchUrl |-> "", version |-> "",
     launchItem |-> 0, organization |-> ""]

Pending == ManifestError("pending")

\* parseScormManifest from the parsed document on; launchItem and
\* organization record the locals the launch URL was taken from
parseScormManifestDocument(doc) ==
    IF ~doc.root
    THEN ManifestError("Invalid manifest structure: missing manifest root.")
    ELSE LET org == DefaultOrganization(doc)
             launchItem == IF doc.organizations /\ org.items # <<>>
                           THEN findLaunchItem(org.items, TopItems(org.items))
                           ELSE 0
             launchUrl == IF launchItem # 0
                          THEN LaunchHref(doc.resources, org.items[launchItem].ref)
                          ELSE ""
         IN  IF launchUrl = ""
             THEN ManifestError("Could not find launch URL in manifest.")
             ELSE [ok |-> TRUE, reason |-> "", launchUrl |-> launchUrl,
                   version |-> DetectVersion(SchemaVersionValue(doc.schemaversion)),
                   launchItem |-> launchItem, organization |-> org.identifier]

InitManifest ==
    /\ manifestDoc = NoRoot
    /\ manifestResult = Pending

----------------------------------------------------------------------------
(* pipwerks.SCORM.API.find: the windows it walks *)

MaxWindows == 3    \* windows of the page

findAttemptLimit == 500

WindowIds == 1..MaxWindows

\* win.parent: 0 when the property is missing, the window itself for a top
\* window, else another window; API and API_1484_11: whether the window
\* carries the object
Window(parent, api, api2004) == [parent |-> parent, API |-> api, API_1484_11 |-> api2004]

\* every arrangement of the windows, chains that run in a circle included
WindowArrangements ==
    [WindowIds -> {Window(p, a, b) : p \in 0..MaxWindows, a \in BOOLEAN, b \in BOOLEAN}]

\* scorm.version: null, or the version the caller has set
FindVersions == {"null", "1.2", "2004"}

\* the value find returns: an API object of a window, or null
NoApi == [window |-> 0, object |-> "null"]
ApiOf(w, object) == [window |-> w, object |-> object]

\* no call of find has been made
InitFind ==
    /\ windows = [w \in WindowIds |-> Window(w, FALSE, FALSE)]
    /\ findVersion = "null"
    /\ findWin = 1
    /\ findAttempts = 0
    /\ findPc = "idle"
    /\ findApi = NoApi
    /\ findGiven = "null"

----------------------------------------------------------------------------
(* Initial state: the module has been loaded *)

\* everything but the document handed to parseScormManifest
InitModule ==
    /\ lmsData = EmptyObject
    /\ currentCourseId = NULL
    /\ currentUserId = NULL
    /\ lastError = "0"
    /\ isInitialized = FALSE
    /\ apiInstalled = FALSE
    /\ pendingFetch = EmptyBag
    /\ pendingPersist = 0
    /\ phase = "Uninitialized"
    /\ written = EmptyObject
    /\ call = Step("load", "", "", "", FALSE, NoPersist)
    /\ InitStore
    /\ InitLibrary
    /\ InitPlayer
    /\ InitCatalogue
    /\ InitFind

Init ==
    /\ InitModule
    /\ InitManifest

----------------------------------------------------------------------------
(* SCORM API methods *)

LMSInitialize ==
    IF Falsy(currentCourseId) \/ Falsy(currentUserId)
    THEN /\ lastError' = "101"
         /\ call' = Step("LMSInitialize", "", "", "false", isInitialized, NoPersist)
         /\ UNCHANGED <<lmsData, currentCourseId, currentUserId, isInitialized,
                        apiInstalled, pendingFetch, pendingPersist, phase, written>>
    ELSE /\ BagCardinality(pendingFetch) < MaxFetch
         /\ pendingFetch' = pendingFetch (+)
                SetToBag({[course |-> currentCourseId, user |-> currentUserId,
                           reinit |-> isInitialized]})
         /\ lmsData' = IF ~isInitialized /\ Cardinality(Keys(lmsData)) = 0
                       THEN DefaultData(currentUserId)
                       ELSE lmsData
         /\ isInitialized' = TRUE
         /\ lastError' = "0"
         /\ phase' = IF phase = "Uninitialized" THEN "Initialized" ELSE phase
         /\ call' = Step("LMSInitialize", "", "", "true", isInitialized, NoPersist)
         /\ UNCHANGED <<currentCourseId, currentUserId, apiInstalled, pendingPersist,
                        written>>

\* the .then callback of the fetch started by LMSInitialize
FetchThen ==
    \E f \in BagToSet(pendingFetch) :
        /\ pendingFetch' = pendingFetch (-) SetToBag({f})
        /\ lmsData' = LoadedData(fetchScormData(f.course, f.user))
        /\ isInitialized' = TRUE
        /\ lastError' = "0"
        /\ call' = Step("FetchThen", "", "", "", f.reinit, NoPersist)
        /\ UNCHANGED <<currentCourseId, currentUserId, apiInstalled,
                       pendingPersist, phase, written>>

\* the .catch callback of the fetch started by LMSInitialize
FetchCatch ==
    \E f \in BagToSet(pendingFetch) :
        /\ pendingFetch' = pendingFetch (-) SetToBag({f})
        /\ lastError' = "101"
        /\ call' = Step("FetchCatch", "", "", "", f.reinit, NoPersist)
        /\ UNCHANGED <<lmsData, currentCourseId, currentUserId, isInitialized,
                       apiInstalled, pendingPersist, phase, written>>

LMSGetValue(element) ==
    /\ IF ~isInitialized
       THEN /\ lastError' = "301"
            /\ call' = Step("LMSGetValue", element, "", "", FALSE, NoPersist)
       ELSE IF ~HasOwnPropertyCallable(lmsData)
       THEN /\ lastError' = lastError
            /\ call' = Step("LMSGetValue", element, "", THROWN, FALSE, NoPersist)
       ELSE IF element \in Keys(lmsData)
       THEN /\ lastError' = "0"
            /\ call' = Step("LMSGetValue", element, "", lmsData[element], FALSE, NoPersist)
       ELSE /\ lastError' = "401"
            /\ call' = Step("LMSGetValue", element, "", "", FALSE, NoPersist)
    /\ UNCHANGED <<lmsData, currentCourseId, currentUserId, isInitialized,
                   apiInstalled, pendingFetch, pendingPersist, phase, written>>

LMSSetValue(element, value) ==
    /\ IF ~isInitialized
       THEN /\ lastError' = "301"
            /\ UNCHANGED <<lmsData, written>>
            /\ call' = Step("LMSSetValue", element, value, "false", FALSE, NoPersist)
       ELSE IF element \in readOnlyElements
       THEN /\ lastError' = "403"
            /\ UNCHANGED <<lmsData, written>>
            /\ call' = Step("LMSSetValue", element, value, "false", FALSE, NoPersist)
       ELSE /\ lmsData' = SetProperty(lmsData, element, value)
            /\ lastError' = "0"
            /\ written' = [k \in (DOMAIN written) \cup {element} |->
                              IF k = element THEN value ELSE written[k]]
            /\ call' = Step("LMSSetValue", element, value, "true", FALSE, NoPersist)
    /\ UNCHANGED <<currentCourseId, currentUserId, isInitialized, apiInstalled,
                   pendingFetch, pendingPersist, phase>>

LMSCommit ==
    /\ IF ~isInitialized
       THEN /\ lastError' = "301"
            /\ pendingPersist' = pendingPersist
            /\ call' = Step("LMSCommit", "", "", "false", FALSE, NoPersist)
       ELSE IF Falsy(currentCourseId) \/ Falsy(currentUserId)
       THEN /\ lastError' = "101"
            /\ pendingPersist' = pendingPersist
            /\ call' = Step("LMSCommit", "", "", "false", FALSE, NoPersist)
       ELSE /\ pendingPersist < MaxPersist
            /\ pendingPersist' = pendingPersist + 1
            /\ lastError' = lastError
            /\ call' = Step("LMSCommit", "", "", "true", FALSE,
                            PersistArgs(currentCourseId, currentUserId, lmsData))
    /\ UNCHANGED <<lmsData, currentCourseId, currentUserId, isInitialized,
                   apiInstalled, pendingFetch, phase, written>>

\* the .then callback of the persist started by LMSCommit
PersistThen(success) ==
    /\ pendingPersist > 0
    /\ pendingPersist' = pendingPersist - 1
    /\ lastError' = IF success THEN "0" ELSE "101"
    /\ call' = Step("PersistThen", "", "", IF success THEN "true" ELSE "false",
                    FALSE, NoPersist)
    /\ UNCHANGED <<lmsData, currentCourseId, currentUserId, isInitialized,
                   apiInstalled, pendingFetch, phase, written>>

\* the .catch callback of the persist started by LMSCommit
PersistCatch ==
    /\ pendingPersist > 0
    /\ pendingPersist' = pendingPersist - 1
    /\ lastError' = "101"
    /\ call' = Step("PersistCatch", "", "", "", FALSE, NoPersist)
    /\ UNCHANGED <<lmsData, currentCourseId, currentUserId, isInitialized,
                   apiInstalled, pendingFetch, phase, written>>

\* LMSFinish commits through LMS.LMSCommit when the session context is set
FinishCommits == ~Falsy(currentCourseId) /\ ~Falsy(currentUserId)

LMSFinish ==
    /\ IF ~isInitialized
       THEN /\ lastError' = "301"
            /\ UNCHANGED <<isInitialized, pendingPersist, phase>>
            /\ call' = Step("LMSFinish", "", "", "false", FALSE, NoPersist)
       ELSE /\ FinishCommits => pendingPersist < MaxPersist
            /\ pendingPersist' = IF FinishCommits THEN pendingPersist + 1
                                 ELSE pendingPersist
            /\ isInitialized' = FALSE
            /\ lastError' = "0"
            /\ phase' = "Terminated"
            /\ call' = Step("LMSFinish", "", "", "true", FALSE,
                            IF FinishCommits
                            THEN PersistArgs(currentCourseId, currentUserId, lmsData)
                            ELSE NoPersist)
    /\ UNCHANGED <<lmsData, currentCourseId, currentUserId, apiInstalled,
                   pendingFetch, written>>

LMSGetLastError ==
    /\ call' = Step("LMSGetLastError", "", "", lastError, FALSE, NoPersist)
    /\ UNCHANGED <<lmsData, currentCourseId, currentUserId, lastError,
                   isInitialized, apiInstalled, pendingFetch, pendingPersist,
                   phase, written>>

\* errorStrings[errorCode] || 'Unknown Error Code': the lookup also finds
\* what the table inherits
LMSGetErrorString(errorCode) ==
    /\ call' = Step("LMSGetErrorString", errorCode, "",
                    IF errorCode \in DOMAIN errorStrings THEN errorStrings[errorCode]
                    ELSE IF errorCode \in InheritedMethods THEN FUNCTION
                    ELSE "Unknown Error Code",
                    FALSE, NoPersist)
    /\ UNCHANGED <<lmsData, currentCourseId, currentUserId, lastError,
                   isInitialized, apiInstalled, pendingFetch, pendingPersist,
                   phase, written>>

LMSGetDiagnostic(errorCode) ==
    /\ call' = Step("LMSGetDiagnostic", errorCode, "", DiagnosticString(errorCode),
                    FALSE, NoPersist)
    /\ UNCHANGED <<lmsData, currentCourseId, currentUserId, lastError,
                   isInitialized, apiInstalled, pendingFetch, pendingPersist,
                   phase, written>>

----------------------------------------------------------------------------
(* Service functions *)

initializeLMSAPIService(courseId, userId) ==
    /\ currentCourseId' = courseId
    /\ currentUserId' = userId
    /\ lmsData' = EmptyObject
    /\ isInitialized' = FALSE
    /\ apiInstalled' = TRUE
    /\ phase' = "Uninitialized"
    /\ written' = EmptyObject
    /\ call' = Step("initializeLMSAPIService", courseId, userId, "", FALSE, NoPersist)
    /\ UNCHANGED <<lastError, pendingFetch, pendingPersist>>

resetLMSAPIService ==
    /\ (isInitialized /\ FinishCommits) => pendingPersist < MaxPersist
    /\ pendingPersist' = IF isInitialized /\ FinishCommits
                         THEN pendingPersist + 1 ELSE pendingPersist
    /\ lastError' = IF isInitialized THEN "0" ELSE lastError
    /\ apiInstalled' = FALSE
    /\ currentCourseId' = NULL
    /\ currentUserId' = NULL
    /\ lmsData' = EmptyObject
    /\ isInitialized' = FALSE
    /\ phase' = "Uninitialized"
    /\ written' = EmptyObject
    /\ call' = Step("resetLMSAPIService", "", "", "", FALSE,
                    IF isInitialized /\ FinishCommits
                    THEN PersistArgs(currentCourseId, currentUserId, lmsData)
                    ELSE NoPersist)
    /\ UNCHANGED pendingFetch

----------------------------------------------------------------------------

\* The shipped backend helpers resolve: fetchScormData with the default
\* data, persistScormData with true.
Next ==
    \/ LMSInitialize /\ UNCHANGED nonBridgeVars
    \/ FetchThen /\ UNCHANGED nonBridgeVars
    \/ LMSFinish /\ UNCHANGED nonBridgeVars
    \/ \E e \in Elements : LMSGetValue(e) /\ UNCHANGED nonBridgeVars
    \/ \E e \in Elements, v \in Values :
           LMSSetValue(e, v) /\ UNCHANGED nonBridgeVars
    \/ LMSCommit /\ UNCHANGED nonBridgeVars
    \/ PersistThen(TRUE) /\ UNCHANGED nonBridgeVars
    \/ LMSGetLastError /\ UNCHANGED nonBridgeVars
    \/ \E code \in ErrorCodeArgs : LMSGetErrorString(code) /\ UNCHANGED nonBridgeVars
    \/ \E code \in ErrorCodeArgs : LMSGetDiagnostic(code) /\ UNCHANGED nonBridgeVars
    \/ \E c \in CourseIds, u \in UserIds :
           initializeLMSAPIService(c, u) /\ UNCHANGED nonBridgeVars
    \/ resetLMSAPIService /\ UNCHANGED nonBridgeVars

Spec == Init /\ [][Next]_vars

\* The backend the helpers are written for (the network calls their
\* comments describe) can also reject, or report an unsuccessful persist;
\* the .catch callbacks and the failure branch of the persist .then handle it.
NextFailing ==
    \/ Next
    \/ FetchCatch /\ UNCHANGED nonBridgeVars
    \/ PersistThen(FALSE) /\ UNCHANGED nonBridgeVars
    \/ PersistCatch /\ UNCHANGED nonBridgeVars

SpecFailing == Init /\ [][NextFailing]_vars

----------------------------------------------------------------------------
(* downloadCourse: one step per await *)

OPFS_DIR == "scorm-courses"

\* the course the library downloads and the player opens
CourseId == "c1"

DlActive ==
    {"started", "fetching", "opening", "reading", "closing", "downloaded",
     "zipLoaded", "parsed", "extracting", "finalizing"}

\* the call begins
DlStart ==
    /\ dlPc = "idle"
    /\ dlPc' = "started"
    /\ dlOpen' = {}
    /\ dlReceived' = 0
    /\ dlRemaining' = 0
    /\ dlContentLength' = 0
    /\ dlManifest' = NoManifest
    /\ dlNextEntry' = 1
    /\ dlExtracted' = 0
    /\ dlProgress' = <<>>
    /\ dlFailedAt' = "none"
    /\ dlBefore' = [files |-> storeFiles, dirs |-> storeDirs]
    /\ UNCHANGED dlPrev
    /\ dlStep' = "start"
    /\ UNCHANGED <<storeVars, dlArchive, swResponse>>

\* ensureDirectory and getDirectoryHandle(course.id, {create: true})
DlEnsureDir ==
    /\ dlPc = "started"
    /\ dlPc' = "fetching"
    /\ opfsDir' = TRUE
    /\ storeDir' = TRUE
    /\ dlStep' = "ensureDir"
    /\ UNCHANGED <<storeDirs, storeFiles, dlOpen, dlArchive, dlContentLength,
                   dlRemaining, dlReceived, dlManifest, dlNextEntry, dlExtracted,
                   dlProgress, dlFailedAt, dlPrev, dlBefore,
                   swResponse>>

\* fetch resolves: a non-success status throws, a success status hands out
\* the reader and the declared length
DlResponse(ok, contentLength, a) ==
    /\ dlPc = "fetching"
    /\ IF ok
       THEN /\ dlPc' = "opening"
            /\ dlContentLength' = contentLength
            /\ dlArchive' = a
            /\ dlRemaining' = MaxBytes
            /\ dlStep' = "response"
            /\ UNCHANGED dlFailedAt
       ELSE /\ dlPc' = "failed"
            /\ dlFailedAt' = "fetching"
            /\ dlStep' = "httpError"
            /\ UNCHANGED <<dlContentLength, dlArchive, dlRemaining>>
    /\ UNCHANGED <<storeVars, dlOpen, dlReceived, dlManifest, dlNextEntry,
                   dlExtracted, dlProgress, dlPrev, dlBefore, swResponse>>

\* getFileHandle('package.zip', {create: true}) and createWritable
DlOpenZip ==
    /\ dlPc = "opening"
    /\ dlPc' = "reading"
    /\ storeFiles' = Touch(storeFiles, <<"package.zip">>)
    /\ dlOpen' = dlOpen \cup {<<"package.zip">>}
    /\ dlStep' = "openZip"
    /\ UNCHANGED <<opfsDir, storeDir, storeDirs, dlArchive, dlContentLength,
                   dlRemaining, dlReceived, dlManifest, dlNextEntry, dlExtracted,
                   dlProgress, dlFailedAt, dlPrev, dlBefore,
                   swResponse>>

\* reader.read() delivers a chunk: it is written and progress is reported
DlReadChunk(n) ==
    /\ dlPc = "reading"
    /\ n <= dlRemaining
    /\ dlRemaining' = dlRemaining - n
    /\ dlReceived' = dlReceived + n
    /\ dlProgress' = Append(dlProgress, DownloadProgress(dlReceived + n, dlContentLength))
    /\ dlStep' = "readChunk"
    /\ UNCHANGED <<storeVars, dlPc, dlOpen, dlArchive, dlContentLength, dlManifest,
                   dlNextEntry, dlExtracted, dlFailedAt, dlPrev, dlBefore,
                   swResponse>>

\* a loop that leaves on the first read
DlReadDoneEarly ==
    /\ dlPc = "reading"
    /\ dlPc' = "closing"
    /\ dlStep' = "readDone"
    /\ UNCHANGED <<storeVars, dlOpen, dlArchive, dlContentLength, dlRemaining,
                   dlReceived, dlManifest, dlNextEntry, dlExtracted, dlProgress,
                   dlFailedAt, dlPrev, dlBefore,
                   swResponse>>

\* reader.read() reports done
DlReadDone ==
    /\ dlPc = "reading"
    /\ dlRemaining = 0
    /\ dlPc' = "closing"
    /\ dlStep' = "readDone"
    /\ UNCHANGED <<storeVars, dlOpen, dlArchive, dlContentLength, dlRemaining,
                   dlReceived, dlManifest, dlNextEntry, dlExtracted, dlProgress,
                   dlFailedAt, dlPrev, dlBefore,
                   swResponse>>

\* zipWritable.close()
DlCloseZip ==
    /\ dlPc = "closing"
    /\ dlPc' = "downloaded"
    /\ storeFiles' = WriteFile(storeFiles, <<"package.zip">>, PackageZip(dlArchive))
    /\ dlOpen' = dlOpen \ {<<"package.zip">>}
    /\ dlStep' = "closeZip"
    /\ UNCHANGED <<opfsDir, storeDir, storeDirs, dlArchive, dlContentLength,
                   dlRemaining, dlReceived, dlManifest, dlNextEntry, dlExtracted,
                   dlProgress, dlFailedAt, dlPrev, dlBefore,
                   swResponse>>

\* zipFileHandle.getFile() and JSZip.loadAsync
DlLoadZip ==
    /\ dlPc = "downloaded"
    /\ dlPc' = "zipLoaded"
    /\ dlStep' = "loadZip"
    /\ UNCHANGED <<storeVars, dlOpen, dlArchive, dlContentLength, dlRemaining,
                   dlReceived, dlManifest, dlNextEntry, dlExtracted, dlProgress,
                   dlFailedAt, dlPrev, dlBefore,
                   swResponse>>

\* a pipeline that goes from the parsed manifest straight to extraction
DlParseManifestSkipSave ==
    /\ dlPc = "zipLoaded"
    /\ LET found == ManifestEntries(dlArchive)
           m == IF found = {} THEN NoManifest
                ELSE parseScormManifest(
                         Archives[dlArchive][CHOOSE i \in found : TRUE].content)
       IN IF m.ok
          THEN /\ dlPc' = "extracting"
               /\ dlManifest' = m
               /\ dlStep' = "parseManifest"
               /\ UNCHANGED dlFailedAt
          ELSE /\ dlPc' = "failed"
               /\ dlFailedAt' = "zipLoaded"
               /\ dlStep' = "invalidPackage"
               /\ UNCHANGED dlManifest
    /\ UNCHANGED <<storeVars, dlOpen, dlArchive, dlContentLength, dlRemaining,
                   dlReceived, dlNextEntry, dlExtracted, dlProgress, dlPrev,
                   dlBefore, swResponse>>

\* zip.file('imsmanifest.xml') and parseScormManifest
DlParseManifest ==
    /\ dlPc = "zipLoaded"
    /\ LET found == ManifestEntries(dlArchive)
           m == IF found = {} THEN NoManifest
                ELSE parseScormManifest(
                         Archives[dlArchive][CHOOSE i \in found : TRUE].content)
       IN IF m.ok
          THEN /\ dlPc' = "parsed"
               /\ dlManifest' = m
               /\ dlStep' = "parseManifest"
               /\ UNCHANGED dlFailedAt
          ELSE /\ dlPc' = "failed"
               /\ dlFailedAt' = "zipLoaded"
               /\ dlStep' = "invalidPackage"
               /\ UNCHANGED dlManifest
    /\ UNCHANGED <<storeVars, dlOpen, dlArchive, dlContentLength, dlRemaining,
                   dlReceived, dlNextEntry, dlExtracted, dlProgress, dlPrev,
                   dlBefore, swResponse>>

\* manifest.json is written and closed
DlSaveManifest ==
    /\ dlPc = "parsed"
    /\ dlPc' = "extracting"
    /\ storeFiles' = WriteFile(storeFiles, <<"manifest.json">>, ManifestJson(dlManifest))
    /\ dlStep' = "saveManifest"
    /\ UNCHANGED <<opfsDir, storeDir, storeDirs, dlOpen, dlArchive, dlContentLength,
                   dlRemaining, dlReceived, dlManifest, dlNextEntry, dlExtracted,
                   dlProgress, dlFailedAt, dlPrev, dlBefore,
                   swResponse>>

\* one round of the loop over Object.entries(zip.files)
DlExtractEntry ==
    /\ dlPc = "extracting"
    /\ dlNextEntry <= TotalFiles(dlArchive)
    /\ LET e == Archives[dlArchive][dlNextEntry]
       IN IF e.dir
          THEN UNCHANGED <<storeDirs, storeFiles, dlExtracted, dlProgress>>
          ELSE /\ storeDirs' = storeDirs \cup ParentDirs(e.path)
               /\ storeFiles' = WriteFile(storeFiles, e.path, FileBytes(e.content))
               /\ dlExtracted' = dlExtracted + 1
               /\ dlProgress' = Append(dlProgress,
                      ExtractProgress(dlExtracted + 1, TotalFiles(dlArchive)))
    /\ dlNextEntry' = dlNextEntry + 1
    /\ dlPc' = IF dlNextEntry = TotalFiles(dlArchive) THEN "finalizing" ELSE "extracting"
    /\ dlStep' = "extractEntry"
    /\ UNCHANGED <<opfsDir, storeDir, dlOpen, dlArchive, dlContentLength,
                   dlRemaining, dlReceived, dlManifest, dlFailedAt, dlPrev, dlBefore,
                   swResponse>>

\* course.json is written and closed
DlSaveCourse ==
    /\ dlPc = "finalizing"
    /\ dlPc' = "done"
    /\ storeFiles' = WriteFile(storeFiles, <<"course.json">>, CourseJson(dlManifest))
    /\ dlStep' = "saveCourse"
    /\ UNCHANGED <<opfsDir, storeDir, storeDirs, dlOpen, dlArchive, dlContentLength,
                   dlRemaining, dlReceived, dlManifest, dlNextEntry, dlExtracted,
                   dlProgress, dlFailedAt, dlPrev, dlBefore,
                   swResponse>>

\* the pending await rejects (storage error, network error, stream error,
\* unreadable archive): the catch block rethrows
DlFail ==
    /\ dlPc \in DlActive
    /\ dlPc' = "failed"
    /\ dlFailedAt' = dlPc
    /\ dlStep' = "reject"
    /\ UNCHANGED <<storeVars, dlOpen, dlArchive, dlContentLength, dlRemaining,
                   dlReceived, dlManifest, dlNextEntry, dlExtracted, dlProgress,
                   dlPrev, dlBefore, swResponse>>

\* the caller has seen the promise settle
DlReturn ==
    /\ dlPc \in {"done", "failed"}
    /\ dlPc' = "idle"
    /\ dlStep' = "return"
    /\ dlPrev' = IF dlPc = "done" THEN dlArchive ELSE 0
    /\ dlBefore' = NoSnapshot
    /\ UNCHANGED <<storeVars, dlOpen, dlArchive, dlContentLength, dlRemaining,
                   dlReceived, dlManifest, dlNextEntry, dlExtracted, dlProgress,
                   dlFailedAt, swResponse>>

\* what getCourseContent resolves with: the parsed course.json of the
\* course directory, null when a step of reading or parsing it throws
NoContent == <<"null">>

getCourseContent ==
    IF opfsDir /\ storeDir /\ <<"course.json">> \in DOMAIN storeFiles
          /\ (\/ storeFiles[<<"course.json">>][1] = "course.json"
              \/ /\ storeFiles[<<"course.json">>][1] = "bytes"
                 /\ storeFiles[<<"course.json">>][2] = "json")
    THEN storeFiles[<<"course.json">>]
    ELSE NoContent

\* removeEntry failures besides a missing entry
DeleteErrors == {"none", "getDirectory", "removeEntry"}

\* the files a removal that failed half-way leaves: those with an open
\* writable stream at least
Locked(files) == [p \in (DOMAIN files) \cap dlOpen |-> files[p]]

\* a deleteCourseDownload whose catch block does not rethrow
deleteCourseDownloadSwallowed(courseId, error, partial) ==
    /\ opfsDir' = (opfsDir \/ error # "getDirectory")
    /\ dlStep' = IF courseId = CourseId THEN "delete" ELSE "deleteOther"
    /\ IF courseId = CourseId /\ error = "none" /\ storeDir /\ dlOpen = {}
       THEN /\ storeDir' = FALSE
            /\ storeDirs' = {}
            /\ storeFiles' = NoFiles
            /\ dlPrev' = 0
            /\ UNCHANGED otherCourse
       ELSE IF courseId = CourseId /\ error # "getDirectory" /\ storeDir /\ partial
       THEN /\ storeFiles' = Locked(storeFiles)
            /\ dlPrev' = 0
            /\ UNCHANGED <<storeDir, storeDirs, otherCourse>>
       ELSE /\ otherCourse' = (otherCourse /\ ~(courseId # CourseId /\ error = "none"))
            /\ UNCHANGED <<storeDir, storeDirs, storeFiles, dlPrev>>
    /\ UNCHANGED <<dlPc, dlOpen, dlArchive, dlContentLength, dlRemaining,
                   dlReceived, dlManifest, dlNextEntry, dlExtracted, dlProgress,
                   dlFailedAt, dlBefore, swResponse, rootFiles, smPc, smOpen, smArg>>

\* ensureDirectory, then dir.removeEntry(courseId, {recursive: true}): the
\* entry and everything below it is removed and the call resolves, or
\* removeEntry rejects (the entry is missing, a file below it has an open
\* writable stream, or the removal fails, possibly half-way) and the
\* catch block rethrows
deleteCourseDownload(courseId, error, partial) ==
    /\ opfsDir' = (opfsDir \/ error # "getDirectory")
    /\ IF courseId = CourseId /\ error = "none" /\ storeDir /\ dlOpen = {}
       THEN /\ storeDir' = FALSE
            /\ storeDirs' = {}
            /\ storeFiles' = NoFiles
            /\ dlPrev' = 0
            /\ dlStep' = "delete"
            /\ UNCHANGED otherCourse
       ELSE IF courseId = CourseId
       THEN /\ IF error # "getDirectory" /\ storeDir /\ partial
               THEN /\ storeFiles' = Locked(storeFiles)
                    /\ dlPrev' = 0
               ELSE UNCHANGED <<storeFiles, dlPrev>>
            /\ dlStep' = "deleteRejected"
            /\ UNCHANGED <<storeDir, storeDirs, otherCourse>>
       ELSE /\ otherCourse' = (otherCourse /\ error # "none")
            /\ dlStep' = IF otherCourse /\ error = "none" THEN "deleteOther"
                         ELSE "deleteOtherRejected"
            /\ UNCHANGED <<storeDir, storeDirs, storeFiles, dlPrev>>
    /\ UNCHANGED <<dlPc, dlOpen, dlArchive, dlContentLength, dlRemaining,
                   dlReceived, dlManifest, dlNextEntry, dlExtracted, dlProgress,
                   dlFailedAt, dlBefore, swResponse, rootFiles, smPc, smOpen, smArg>>

----------------------------------------------------------------------------
(* Service worker: the fetch listener *)

\* url.pathname.split('/') of the requests the content frame and the page
\* issue: the first element is the empty string before the leading slash
Requests ==
    {<<"", "scorm-content", CourseId, "index.html">>,
     <<"", "scorm-content", CourseId, "missing.js">>,
     <<"", "scorm-content", CourseId, "content", "index.html">>,
     <<"", "scorm-content", CourseId, "nodir", "missing.js">>,
     <<"", "scorm-content", CourseId, "index.html", "missing.js">>,
     <<"", "scorm-content", CourseId, "content">>,
     <<"", "scorm-content", CourseId, "course.json">>,
     <<"", "scorm-content", "c2", "index.html">>,
     <<"", "scorm-content", CourseId>>,
     <<"", "", "scorm-content", CourseId, "index.html">>,
     <<"", "assets", CourseId, "index.html">>}

\* url.pathname.startsWith('/scorm-content/')
StartsWithNamespace(pathname) ==
    Len(pathname) >= 3 /\ pathname[1] = "" /\ pathname[2] = "scorm-content"

NonEmpty(segment) == segment # ""

\* url.pathname.split('/').filter(segment => segment !== '')
PathSegments(pathname) == SelectSeq(pathname, NonEmpty)

\* the storage call that rejects with an error other than not-found
Faults == {"none", "getDirectory", "getHandle", "getFile"}

\* a listener that looks at the segments only
InterceptedBySegments(pathname) ==
    /\ Len(PathSegments(pathname)) >= 3
    /\ PathSegments(pathname)[1] = "scorm-content"

\* the listener calls respondWith
Intercepted(pathname) ==
    /\ StartsWithNamespace(pathname)
    /\ Len(PathSegments(pathname)) >= 3
    /\ PathSegments(pathname)[1] = "scorm-content"

\* file.type: the media type the browser derives from the file name, the
\* empty string when it knows none
FileType(name) ==
    CASE name = "index.html" -> "text/html"
      [] name \in {"course.json", "manifest.json"} -> "application/json"
      [] name = "imsmanifest.xml" -> "text/xml"
      [] name = "package.zip" -> "application/zip"
      [] OTHER -> ""

\* file.type || 'application/octet-stream'
ContentType(filePath) ==
    IF FileType(filePath[Len(filePath)]) = "" THEN "application/octet-stream"
    ELSE FileType(filePath[Len(filePath)])

\* getFileHandleRecursive(root, [OPFS_DIR, courseId, ...filePathSegments])
\* finds a file handle: every intermediate segment opens as a directory and
\* the last one as a file; any error on the way gives null
getFileHandleRecursive(courseId, filePath, fault) ==
    /\ fault # "getHandle"
    /\ opfsDir
    /\ courseId = CourseId /\ storeDir
    /\ \A i \in 1..(Len(filePath) - 1) : SubSeq(filePath, 1, i) \in storeDirs
    /\ filePath \in DOMAIN storeFiles

\* a listener that answers a missing handle with a server error
SwRespondServerError(pathSegments, fault) ==
    LET courseId == pathSegments[2]
        filePath == SubSeq(pathSegments, 3, Len(pathSegments))
    IN IF fault = "getDirectory"
       THEN [status |-> 500, body |-> EmptyFile, contentType |-> "text/plain"]
       ELSE IF ~getFileHandleRecursive(courseId, filePath, fault)
       THEN [status |-> 500, body |-> EmptyFile, contentType |-> "text/plain"]
       ELSE IF fault = "getFile"
       THEN [status |-> 500, body |-> EmptyFile, contentType |-> "text/plain"]
       ELSE [status |-> 200, body |-> storeFiles[filePath],
             contentType |-> ContentType(filePath)]

\* the body of respondWith: root, handle lookup, file read
SwRespond(pathSegments, fault) ==
    LET courseId == pathSegments[2]
        filePath == SubSeq(pathSegments, 3, Len(pathSegments))
    IN IF fault = "getDirectory"
       THEN [status |-> 500, body |-> EmptyFile, contentType |-> "text/plain"]
       ELSE IF ~getFileHandleRecursive(courseId, filePath, fault)
       THEN [status |-> 404, body |-> EmptyFile, contentType |-> "text/plain"]
       ELSE IF fault = "getFile"
       THEN [status |-> 500, body |-> EmptyFile, contentType |-> "text/plain"]
       ELSE [status |-> 200, body |-> storeFiles[filePath],
             contentType |-> ContentType(filePath)]

\* no fetch event is being answered
NoResponse ==
    [status |-> 0, body |-> EmptyFile, contentType |-> "", request |-> <<>>,
     pathname |-> <<>>, fault |-> "none"]

\* one fetch event, from the listener's entry to the response it resolves
\* to; status 0: the listener did not call respondWith
SwFetch(pathname, fault) ==
    /\ swResponse = NoResponse
    /\ swResponse' =
          IF Intercepted(pathname)
          THEN [status |-> SwRespond(PathSegments(pathname), fault).status,
                body |-> SwRespond(PathSegments(pathname), fault).body,
                contentType |-> SwRespond(PathSegments(pathname), fault).contentType,
                request |-> PathSegments(pathname), pathname |-> pathname,
                fault |-> fault]
          ELSE [status |-> 0, body |-> EmptyFile, contentType |-> "",
                request |-> PathSegments(pathname), pathname |-> pathname,
                fault |-> "none"]
    /\ UNCHANGED <<storeVars, dlVars>>

\* the browser hands the response to the requester
SwDeliver ==
    /\ swResponse # NoResponse
    /\ swResponse' = NoResponse
    /\ UNCHANGED <<storeVars, dlVars>>

NextStore ==
    \/ DlStart /\ UNCHANGED nonStoreVars
    \/ DlEnsureDir /\ UNCHANGED nonStoreVars
    \/ \E ok \in BOOLEAN, len \in DeclaredLengths, a \in ArchiveIds :
           DlResponse(ok, len, a) /\ UNCHANGED nonStoreVars
    \/ DlOpenZip /\ UNCHANGED nonStoreVars
    \/ \E n \in ChunkSizes : DlReadChunk(n) /\ UNCHANGED nonStoreVars
    \/ DlReadDone /\ UNCHANGED nonStoreVars
    \/ DlCloseZip /\ UNCHANGED nonStoreVars
    \/ DlLoadZip /\ UNCHANGED nonStoreVars
    \/ DlParseManifest /\ UNCHANGED nonStoreVars
    \/ DlSaveManifest /\ UNCHANGED nonStoreVars
    \/ DlExtractEntry /\ UNCHANGED nonStoreVars
    \/ DlSaveCourse /\ UNCHANGED nonStoreVars
    \/ DlFail /\ UNCHANGED nonStoreVars
    \/ DlReturn /\ UNCHANGED nonStoreVars
    \/ (dlPc = "idle" /\ storeDir /\ deleteCourseDownload(CourseId, "none", FALSE))
           /\ UNCHANGED nonStoreVars

SpecStore == Init /\ [][NextStore]_vars

\* the requests answered while a storage call rejects
FaultRequests ==
    {<<"", "scorm-content", CourseId, "index.html">>,
     <<"", "scorm-content", CourseId, "missing.js">>}

\* the pipeline for a response that declares its exact length
NextStoreExact ==
    \/ DlStart /\ UNCHANGED nonStoreVars
    \/ DlEnsureDir /\ UNCHANGED nonStoreVars
    \/ \E ok \in BOOLEAN, a \in ArchiveIds :
           DlResponse(ok, MaxBytes, a) /\ UNCHANGED nonStoreVars
    \/ DlOpenZip /\ UNCHANGED nonStoreVars
    \/ \E n \in ChunkSizes : DlReadChunk(n) /\ UNCHANGED nonStoreVars
    \/ DlReadDone /\ UNCHANGED nonStoreVars
    \/ DlCloseZip /\ UNCHANGED nonStoreVars
    \/ DlLoadZip /\ UNCHANGED nonStoreVars
    \/ DlParseManifest /\ UNCHANGED nonStoreVars
    \/ DlSaveManifest /\ UNCHANGED nonStoreVars
    \/ DlExtractEntry /\ UNCHANGED nonStoreVars
    \/ DlSaveCourse /\ UNCHANGED nonStoreVars
    \/ DlFail /\ UNCHANGED nonStoreVars
    \/ DlReturn /\ UNCHANGED nonStoreVars
    \/ (dlPc = "idle" /\ storeDir /\ deleteCourseDownload(CourseId, "none", FALSE))
           /\ UNCHANGED nonStoreVars

\* the store as the pipeline leaves it, with fetch events answered in between;
\* a response is delivered before the store moves on, so that the answer can
\* be read against the store it was computed from
NextWorker ==
    \/ swResponse = NoResponse /\ NextStoreExact
    \/ \E r \in Requests : SwFetch(r, "none") /\ UNCHANGED nonStoreVars
    \/ \E r \in FaultRequests, f \in Faults \ {"none"} :
           SwFetch(r, f) /\ UNCHANGED nonStoreVars
    \/ SwDeliver /\ UNCHANGED nonStoreVars

SpecWorker == Init /\ [][NextWorker]_vars

TypeOKStore ==
    /\ opfsDir \in BOOLEAN
    /\ storeDir \in BOOLEAN
    /\ dlPc \in DlActive \cup {"idle", "done", "failed"}
    /\ dlArchive \in ArchiveIds
    /\ dlContentLength \in DeclaredLengths
    /\ dlRemaining \in 0..MaxBytes
    /\ dlReceived \in 0..MaxBytes
    /\ dlNextEntry \in 1..5
    /\ dlExtracted \in 0..4
    /\ swResponse.status \in {0, 200, 404, 500}
    /\ dlPrev \in {0} \cup ArchiveIds

----------------------------------------------------------------------------
(* CourseLibrary: load, sync, download, download all, remove *)

\* the mount effect: the list is loaded and every course's presence read
loadCourses ==
    /\ isLoading
    /\ isLoading' = FALSE
    /\ downloadStatuses' = [c \in LibCourseIds |-> PresenceStatus(c)]
    /\ UNCHANGED <<isSyncing, newStatuses, coursePresent, buttonCalls, bulk>>

\* click on the sync button (disabled while isSyncing)
syncCoursesStart ==
    /\ ~isSyncing
    /\ isSyncing' = TRUE
    /\ newStatuses' = [c \in LibCourseIds |-> "unread"]
    /\ UNCHANGED <<downloadStatuses, isLoading, coursePresent, buttonCalls, bulk>>

\* syncCourses: await isCourseDownloaded(course.id) for the next course
syncCoursesCheck(i) ==
    /\ isSyncing
    /\ newStatuses[LibCourses[i]] = "unread"
    /\ \A j \in 1..(i - 1) : newStatuses[LibCourses[j]] # "unread"
    /\ newStatuses' = [newStatuses EXCEPT ![LibCourses[i]] = PresenceStatus(LibCourses[i])]
    /\ UNCHANGED <<downloadStatuses, isLoading, isSyncing, coursePresent,
                   buttonCalls, bulk>>

\* syncCourses: setDownloadStatuses(newStatuses), finally
syncCoursesFinish ==
    /\ isSyncing
    /\ \A c \in LibCourseIds : newStatuses[c] # "unread"
    /\ downloadStatuses' = newStatuses
    /\ isSyncing' = FALSE
    /\ UNCHANGED <<isLoading, newStatuses, coursePresent, buttonCalls, bulk>>

\* syncCourses: getAllCourses or saveMetadata rejects
syncCoursesFail ==
    /\ isSyncing
    /\ \A c \in LibCourseIds : newStatuses[c] = "unread"
    /\ isSyncing' = FALSE
    /\ UNCHANGED <<downloadStatuses, isLoading, newStatuses, coursePresent,
                   buttonCalls, bulk>>

\* click on a course's download button, shown for 'not-downloaded':
\* handleDownload up to its await; downloadCourse creates the directory
handleDownload(c) ==
    /\ downloadStatuses[c] = "not-downloaded"
    /\ buttonCalls[c] < MaxCalls
    /\ downloadStatuses' = [downloadStatuses EXCEPT ![c] = "downloading"]
    /\ buttonCalls' = [buttonCalls EXCEPT ![c] = @ + 1]
    /\ coursePresent' = [coursePresent EXCEPT ![c] = TRUE]
    /\ UNCHANGED <<isLoading, isSyncing, newStatuses, bulk>>

\* the onProgress callback of a call in flight
onProgress(c) ==
    /\ InFlight(c) > 0
    /\ downloadStatuses' = [downloadStatuses EXCEPT ![c] = "downloading"]
    /\ UNCHANGED <<isLoading, isSyncing, newStatuses, coursePresent, buttonCalls, bulk>>

\* a call started from the button settles
handleDownloadSettled(c, ok) ==
    /\ buttonCalls[c] > 0
    /\ buttonCalls' = [buttonCalls EXCEPT ![c] = @ - 1]
    /\ downloadStatuses' = [downloadStatuses EXCEPT
                               ![c] = IF ok THEN "downloaded" ELSE "not-downloaded"]
    /\ UNCHANGED <<isLoading, isSyncing, newStatuses, coursePresent, bulk>>

\* click on "download all" (disabled while isLoading or isSyncing): the list
\* is taken now and handleDownload is called for its first course
handleDownloadAll ==
    /\ ~isLoading /\ ~isSyncing
    /\ bulk = NoBulk
    /\ \A c \in LibCourseIds : downloadStatuses[c] # "none"
    /\ LET coursesToDownload == NotDownloaded(1)
       IN /\ coursesToDownload # <<>>
          /\ bulk' = [current |-> Head(coursesToDownload),
                      rest |-> Tail(coursesToDownload)]
          /\ downloadStatuses' =
                 [downloadStatuses EXCEPT ![Head(coursesToDownload)] = "downloading"]
          /\ coursePresent' = [coursePresent EXCEPT ![Head(coursesToDownload)] = TRUE]
    /\ UNCHANGED <<isLoading, isSyncing, newStatuses, buttonCalls>>

\* the call "download all" awaits settles; the loop calls handleDownload for
\* the next course of its list
handleDownloadAllNext(ok) ==
    /\ bulk.current # "none"
    /\ LET settled == [downloadStatuses EXCEPT
                          ![bulk.current] = IF ok THEN "downloaded" ELSE "not-downloaded"]
       IN IF bulk.rest = <<>>
          THEN /\ bulk' = NoBulk
               /\ downloadStatuses' = settled
               /\ UNCHANGED coursePresent
          ELSE /\ bulk' = [current |-> Head(bulk.rest), rest |-> Tail(bulk.rest)]
               /\ downloadStatuses' = [settled EXCEPT ![Head(bulk.rest)] = "downloading"]
               /\ coursePresent' = [coursePresent EXCEPT ![Head(bulk.rest)] = TRUE]
    /\ UNCHANGED <<isLoading, isSyncing, newStatuses, buttonCalls>>

\* "remove download", shown for 'downloaded', confirmed in the dialog
handleRemoveDownload(c) ==
    /\ downloadStatuses[c] = "downloaded"
    /\ coursePresent[c]
    /\ coursePresent' = [coursePresent EXCEPT ![c] = FALSE]
    /\ downloadStatuses' = [downloadStatuses EXCEPT ![c] = "not-downloaded"]
    /\ UNCHANGED <<isLoading, isSyncing, newStatuses, buttonCalls, bulk>>

NextLibrary ==
    \/ loadCourses /\ UNCHANGED nonLibraryVars
    \/ syncCoursesStart /\ UNCHANGED nonLibraryVars
    \/ \E i \in DOMAIN LibCourses : syncCoursesCheck(i) /\ UNCHANGED nonLibraryVars
    \/ syncCoursesFinish /\ UNCHANGED nonLibraryVars
    \/ syncCoursesFail /\ UNCHANGED nonLibraryVars
    \/ \E c \in LibCourseIds : handleDownload(c) /\ UNCHANGED nonLibraryVars
    \/ \E c \in LibCourseIds : onProgress(c) /\ UNCHANGED nonLibraryVars
    \/ \E c \in LibCourseIds, ok \in BOOLEAN :
           handleDownloadSettled(c, ok) /\ UNCHANGED nonLibraryVars
    \/ handleDownloadAll /\ UNCHANGED nonLibraryVars
    \/ \E ok \in BOOLEAN : handleDownloadAllNext(ok) /\ UNCHANGED nonLibraryVars
    \/ \E c \in LibCourseIds : handleRemoveDownload(c) /\ UNCHANGED nonLibraryVars

SpecLibrary == Init /\ [][NextLibrary]_vars

TypeOKLibrary ==
    /\ downloadStatuses \in
           [LibCourseIds -> {"none", "not-downloaded", "downloading", "downloaded"}]
    /\ isLoading \in BOOLEAN
    /\ isSyncing \in BOOLEAN
    /\ coursePresent \in [LibCourseIds -> BOOLEAN]
    /\ buttonCalls \in [LibCourseIds -> 0..MaxCalls]
    /\ bulk.current \in LibCourseIds \cup {"none"}

TypeOK ==
    /\ DOMAIN lmsData \subseteq STRING
    /\ currentCourseId \in CourseIds \cup {NULL}
    /\ currentUserId \in UserIds \cup {NULL}
    /\ lastError \in ErrorCodes
    /\ isInitialized \in BOOLEAN
    /\ apiInstalled \in BOOLEAN
    /\ pendingPersist \in 0..MaxPersist
    /\ phase \in {"Uninitialized", "Initialized", "Terminated"}
    /\ DOMAIN written \subseteq Elements

----------------------------------------------------------------------------
(* Properties of the runtime bridge *)

DataOps == {"LMSGetValue", "LMSSetValue", "LMSCommit"}

\* C1: a data operation (LMSGetValue, LMSSetValue, LMSCommit) called before
\* the first successful LMSInitialize of the session or after a successful
\* LMSFinish fails (returns "" / "false") and sets the last-error register
\* to "301", under every interleaving with the background completions.
C1_DataOpsFailOutsideInitialized ==
    [][(phase # "Initialized" /\ call'.op \in DataOps)
         => (call'.ret \in {"", "false"} /\ lastError' = "301")]_vars

\* C2: Terminated is terminal: once LMSFinish has succeeded, no later
\* LMSInitialize of the same session returns "true" or makes the session
\* initialized again.
C2_TerminatedIsTerminal ==
    [][(phase = "Terminated" /\ call'.op = "LMSInitialize")
         => (call'.ret # "true" /\ ~isInitialized')]_vars

\* the elements of the SCORM data model among the names content passes
CmiElements == Elements \ {"hasOwnProperty", "__proto__"}

\* C3: after LMSSetValue(e, v) returned "true" in an initialized session,
\* and with no later LMSSetValue on e, every later LMSGetValue(e) of that
\* session returns v, whenever the background load completes (stated for
\* the cmi elements and for the calls that return).
C3_GetAfterSet ==
    [][(phase = "Initialized" /\ call'.op = "LMSGetValue"
          /\ call'.element \in CmiElements \cap DOMAIN written
          /\ call'.ret # THROWN)
         => call'.ret = written[call'.element]]_vars

\* the read-only elements as the documentation lists them
DocumentedReadOnly ==
    {"cmi.core.student_id", "cmi.core.student_name", "cmi.core.credit",
     "cmi.core.lesson_mode", "cmi.launch_data", "cmi.core.score.min",
     "cmi.core.score.max"}

\* C4: in an initialized session LMSSetValue on a read-only element returns
\* "false", sets the last-error register to "403" and leaves the whole data
\* model unchanged.
C4_ReadOnlyRejected ==
    [][(isInitialized /\ call'.op = "LMSSetValue"
          /\ call'.element \in DocumentedReadOnly)
         => (call'.ret = "false" /\ lastError' = "403" /\ lmsData' = lmsData)]_vars

\* C4 witness: a write to the upper score bound, which holds a different
\* value, has just been rejected with "403" in an initialized session.
C4_Witness ==
    /\ isInitialized
    /\ call.op = "LMSSetValue"
    /\ call.element = "cmi.core.score.max"
    /\ call.ret = "false"
    /\ lastError = "403"
    /\ call.element \in DOMAIN lmsData
    /\ lmsData[call.element] # call.value

\* C5: in a freshly initialized session, before content has written
\* anything, LMSGetValue("cmi.core.lesson_status") returns "incomplete",
\* both before and after the background fetch completes.
C5_FreshStatusIncomplete ==
    [][(phase = "Initialized" /\ call'.op = "LMSGetValue"
          /\ call'.element = "cmi.core.lesson_status"
          /\ written = EmptyObject)
         => call'.ret = "incomplete"]_vars

\* C6: LMSFinish fails with "301" when the session is not initialized; in an
\* initialized session it invokes persistScormData with the current course
\* id, learner id and data model and leaves the initialized state; every
\* later LMSFinish of the session fails with "301", also after the pending
\* background callbacks have run.
C6_FinishOnce ==
    [][(call'.op = "LMSFinish") =>
         /\ ~isInitialized => (call'.ret = "false" /\ lastError' = "301")
         /\ phase = "Initialized" =>
              /\ call'.ret = "true"
              /\ call'.persisted =
                     PersistArgs(currentCourseId, currentUserId, lmsData)
              /\ ~isInitialized'
         /\ phase = "Terminated" => (call'.ret = "false" /\ lastError' = "301")]_vars

\* the session context lacks a course id or a learner id
LacksContext ==
    \/ currentCourseId \in {NULL, ""}
    \/ currentUserId \in {NULL, ""}

\* C7: without a course id or a learner id LMSInitialize returns "false",
\* sets the last-error register to "101", starts no background fetch and
\* leaves the initialized flag and the data model unchanged.
C7_InitializeNeedsContext ==
    [][(LacksContext /\ call'.op = "LMSInitialize")
         => /\ call'.ret = "false"
            /\ lastError' = "101"
            /\ pendingFetch' = pendingFetch
            /\ isInitialized' = isInitialized
            /\ lmsData' = lmsData]_vars

\* C7 witness: LMSInitialize has just failed with "101" in a session that
\* has a course id but an empty learner id.
C7_Witness ==
    /\ call.op = "LMSInitialize"
    /\ call.ret = "false"
    /\ lastError = "101"
    /\ currentCourseId = "c1"
    /\ currentUserId = ""

\* C8: LMSInitialize on an initialized session is a no-op: it returns "true"
\* and neither the call nor a background completion it causes changes the
\* session state or any data-model value.
C8_ReinitializeNoOp ==
    [][/\ (phase = "Initialized" /\ call'.op = "LMSInitialize")
            => (call'.ret = "true" /\ isInitialized' /\ lmsData' = lmsData)
       /\ (phase = "Initialized" /\ call'.op \in {"FetchThen", "FetchCatch"}
             /\ call'.reinit)
            => (isInitialized' = isInitialized /\ lmsData' = lmsData)]_vars

\* C9: LMSCommit fails with "301" when the session is not initialized;
\* otherwise it returns "true" while the persistence is still in flight; a
\* later failure of the persistence changes only the last-error register,
\* to "101".
C9_CommitOptimistic ==
    [][/\ (~isInitialized /\ call'.op = "LMSCommit")
            => (call'.ret = "false" /\ lastError' = "301")
       /\ (isInitialized /\ call'.op = "LMSCommit")
            => (call'.ret = "true" /\ pendingPersist' = pendingPersist + 1)
       /\ (call'.op = "PersistCatch"
             \/ (call'.op = "PersistThen" /\ call'.ret = "false"))
            => /\ lastError' = "101"
               /\ UNCHANGED <<lmsData, isInitialized, phase, currentCourseId,
                              currentUserId>>]_vars

\* C10: in an initialized session LMSGetValue(e) returns the stored string
\* with error "0" when e is a key of the data model, returns "" with error
\* "401" when it is not, and never changes the data model.
C10_GetValue ==
    [][(isInitialized /\ call'.op = "LMSGetValue")
         => /\ lmsData' = lmsData
            /\ call'.element \in DOMAIN lmsData
                 => (call'.ret = lmsData[call'.element] /\ lastError' = "0")
            /\ call'.element \notin DOMAIN lmsData
                 => (call'.ret = "" /\ lastError' = "401")]_vars

\* the calls that update the last-error register
RegisterOps ==
    {"LMSInitialize", "LMSFinish", "LMSGetValue", "LMSSetValue", "LMSCommit"}

\* the error code each operation documents for its failure in the state
\* it was called in
OwnErrorCode(op) ==
    CASE op = "LMSInitialize" -> "101"
      [] op = "LMSFinish" -> "301"
      [] op = "LMSGetValue" -> IF isInitialized THEN "401" ELSE "301"
      [] op = "LMSSetValue" -> IF isInitialized THEN "403" ELSE "301"
      [] op = "LMSCommit" -> IF isInitialized THEN "101" ELSE "301"

\* the call reported a failure: "false", or "" from a read with no stored value
ReportedFailure(c) ==
    IF c.op = "LMSGetValue"
    THEN ~isInitialized \/ c.element \notin DOMAIN lmsData
    ELSE c.ret = "false"

\* C11: immediately after LMSInitialize, LMSFinish, LMSGetValue, LMSSetValue
\* or LMSCommit returns, the last-error register holds "0" if the call
\* reported success and the call's own error code if it reported failure,
\* whatever an earlier call left there.
C11_RegisterUpdated ==
    [][(call'.op \in RegisterOps /\ call'.ret # THROWN)
         => lastError' = IF ReportedFailure(call') THEN OwnErrorCode(call'.op)
                         ELSE "0"]_vars

\* the eight operations of the API object
ApiOps ==
    RegisterOps \cup {"LMSGetLastError", "LMSGetErrorString", "LMSGetDiagnostic"}

\* C12: no API operation throws to content: for every element name, value
\* and session state each of the eight operations returns.
C12_NeverThrows ==
    [][(call'.op \in ApiOps) => call'.ret # THROWN]_vars

----------------------------------------------------------------------------
(* Claims about the download and extraction pipeline *)

\* C13: when downloadCourse has failed, at whichever step, and no earlier
\* download of the course completed, the presence check isCourseDownloaded
\* reports false.
C13_FailureLeavesNotDownloaded ==
    (dlPc = "failed" /\ <<"course.json">> \notin DOMAIN storeFiles)
        => ~isCourseDownloaded

\* C14: every value handed to onProgress is an integer between 0 and 100,
\* whatever length the response declared and whatever the archive holds.
C14_ProgressInRange ==
    \A i \in DOMAIN dlProgress :
        ~dlProgress[i].inf /\ dlProgress[i].n \in 0..100

\* order of the progress values, Infinity above every number
Leq(a, b) ==
    b.inf \/ (~a.inf /\ a.n <= b.n)

\* C15: within one call the values handed to onProgress never decrease,
\* through the download phase, into extraction and through extraction.
C15_ProgressMonotone ==
    \A i, j \in DOMAIN dlProgress :
        i < j => Leq(dlProgress[i], dlProgress[j])

\* C16: when the call resolves, the last value handed to onProgress is 100,
\* for every archive; and when the stream fails during the download no
\* further value is reported and the call does not resolve.
C16_EndsAtHundred ==
    [][/\ dlPc' = "done" =>
            /\ dlProgress' # <<>>
            /\ dlProgress'[Len(dlProgress')] = Num(100)
       /\ (dlPc = "reading" /\ dlPc' = "failed") => dlProgress' = dlProgress
       /\ dlPc = "failed" => (dlProgress' = dlProgress /\ dlPc' # "done")]_vars

\* C17: the archive is opened, and entries are extracted, only when the
\* response stream has been read to its end and package.zip has been written
\* and its write handle closed; course.json is written only when the manifest
\* has been parsed successfully, and holds that manifest.
C17_DownloadBeforeExtraction ==
    [][/\ dlStep' \in {"loadZip", "extractEntry"} =>
            /\ dlRemaining = 0
            /\ dlReceived = MaxBytes
            /\ <<"package.zip">> \notin dlOpen
            /\ <<"package.zip">> \in DOMAIN storeFiles
            /\ storeFiles[<<"package.zip">>] = PackageZip(dlArchive)
       /\ dlStep' = "saveCourse" =>
            /\ dlManifest.ok
            /\ dlManifest = parseScormManifest("manifest-ok")
            /\ storeFiles'[<<"course.json">>] = CourseJson(dlManifest)]_vars

\* a download has run to its end: archive read, extracted and recorded
C17_Witness ==
    /\ dlPc = "done"
    /\ dlStep = "saveCourse"
    /\ dlReceived = MaxBytes
    /\ dlExtracted > 0
    /\ <<"course.json">> \in DOMAIN storeFiles

PhaseRank(pc) ==
    CASE pc \in {"started", "fetching", "opening", "reading", "closing",
                 "downloaded"} -> 1                     \* Downloading
      [] pc \in {"zipLoaded", "parsed"} -> 2            \* ManifestParsing
      [] pc = "extracting" -> 3                         \* Extracting
      [] pc = "finalizing" -> 4                         \* Finalizing
      [] pc = "done" -> 5                               \* Done
      [] OTHER -> 0                                     \* Idle, Failed

----------------------------------------------------------------------------
(* Claims about the content request interceptor *)

\* the request names, under the course directory, a path that is not a
\* stored file, or that runs through a directory that does not exist
NamesAbsentFile(request) ==
    LET filePath == SubSeq(request, 3, Len(request))
    IN \/ filePath \notin DOMAIN storeFiles
       \/ \E i \in 1..(Len(filePath) - 1) : SubSeq(filePath, 1, i) \notin storeDirs

\* C20: for a course whose directory exists in the store, a request to
\* /scorm-content/<id>/<path> naming a file or an intermediate directory
\* that does not exist is answered with status 404, never 500 (the root of
\* the store being obtainable).
C20_MissingIsNotFound ==
    (/\ swResponse # NoResponse
     /\ Len(swResponse.pathname) >= 3
     /\ swResponse.pathname[1] = "" /\ swResponse.pathname[2] = "scorm-content"
     /\ Len(swResponse.request) >= 3
     /\ swResponse.request[1] = "scorm-content"
     /\ swResponse.request[2] = CourseId
     /\ opfsDir /\ storeDir
     /\ swResponse.fault # "getDirectory"
     /\ NamesAbsentFile(swResponse.request))
        => swResponse.status = 404

\* a downloaded course was asked for a file it does not hold, and for a
\* file under a directory it does not hold
C20_Witness ==
    /\ dlPc = "done"
    /\ <<"index.html">> \in DOMAIN storeFiles
    /\ swResponse.request \in {<<"scorm-content", CourseId, "missing.js">>,
                               <<"scorm-content", CourseId, "nodir", "missing.js">>}
    /\ swResponse.fault = "none"
    /\ swResponse.status = 404

----------------------------------------------------------------------------
(* Claims about the course library *)

\* C19: for every course id at most one downloadCourse call is in flight at
\* any time, whatever the user clicks (download, download all, sync, remove)
\* and however the downloads progress and settle.
C19_OneDownloadPerCourse ==
    \A c \in LibCourseIds : InFlight(c) <= 1

\* the request names a stored file of the course, so that the handle lookup
\* reaches getFile
NamesStoredFile(request) ==
    /\ request[2] = CourseId
    /\ opfsDir /\ storeDir
    /\ ~NamesAbsentFile(request)

\* C21: every request the interceptor handles is answered with a response,
\* and a storage error other than the file being absent, at whichever step
\* (obtaining the root, resolving a directory or file handle, reading the
\* file), is answered with status 500, not 404 or 200.
C21_StorageErrorIsServerError ==
    (/\ swResponse # NoResponse
     /\ Len(swResponse.pathname) >= 3
     /\ swResponse.pathname[1] = "" /\ swResponse.pathname[2] = "scorm-content"
     /\ Len(swResponse.request) >= 3
     /\ swResponse.request[1] = "scorm-content")
        => /\ swResponse.status \in {200, 404, 500}
           /\ swResponse.fault \in {"getDirectory", "getHandle"}
                 => swResponse.status = 500
           /\ (swResponse.fault = "getFile" /\ NamesStoredFile(swResponse.request))
                 => swResponse.status = 500

\* C22 as stated: the interceptor responds exactly to the requests whose
\* path, split on '/' with the empty segments removed, has at least three
\* segments of which the first is 'scorm-content'; every other request is
\* passed through, and the store is left as it is.
C22_InterceptsBySegments ==
    [][(swResponse = NoResponse /\ swResponse' # NoResponse) =>
          /\ storeVars' = storeVars
          /\ swResponse'.status # 0 <=>
                (/\ Len(swResponse'.request) >= 3
                 /\ swResponse'.request[1] = "scorm-content")]_vars

\* C22 amended: the interceptor responds exactly to the requests whose path
\* begins with '/scorm-content/' and has at least three non-empty segments;
\* every other request, a path with an empty segment before the namespace
\* tag included, is passed through, and the store is left as it is.
C22_InterceptsNamespace ==
    [][(swResponse = NoResponse /\ swResponse' # NoResponse) =>
          /\ storeVars' = storeVars
          /\ swResponse'.status # 0 <=>
                (/\ Len(swResponse'.pathname) >= 3
                 /\ swResponse'.pathname[1] = ""
                 /\ swResponse'.pathname[2] = "scorm-content"
                 /\ Len(swResponse'.request) >= 3)]_vars

\* a request for //scorm-content/c1/index.html was passed through while the
\* course holds index.html
C22_Witness ==
    /\ swResponse.pathname = <<"", "", "scorm-content", CourseId, "index.html">>
    /\ swResponse.request = <<"scorm-content", CourseId, "index.html">>
    /\ swResponse.status = 0
    /\ storeDir
    /\ <<"index.html">> \in DOMAIN storeFiles

----------------------------------------------------------------------------
(* Claims about the stored package *)

\* C23: when downloadCourse has resolved, the store holds, for every
\* non-directory entry of the archive, a file at the entry's own path with
\* the entry's bytes, whatever the entry is named, together with the archive
\* file, the manifest record and the combined record.
C23_TreeMirrorsArchive ==
    dlPc = "done" =>
        /\ \A i \in 1..TotalFiles(dlArchive) :
              LET e == Archives[dlArchive][i]
              IN ~e.dir =>
                    /\ e.path \in DOMAIN storeFiles
                    /\ storeFiles[e.path] = FileBytes(e.content)
                    /\ ParentDirs(e.path) \subseteq storeDirs
        /\ {<<"package.zip">>, <<"manifest.json">>, <<"course.json">>}
              \subseteq DOMAIN storeFiles
        /\ storeFiles[<<"package.zip">>] = PackageZip(dlArchive)
        /\ storeFiles[<<"manifest.json">>] = ManifestJson(dlManifest)
        /\ storeFiles[<<"course.json">>] = CourseJson(dlManifest)

\* C24: when downloadCourse has resolved for an archive with a non-directory
\* entry at path p, a request to /scorm-content/<courseId>/<p> is answered
\* with status 200, the bytes of that entry, and the content type of the
\* stored file, application/octet-stream when it has none.
C24_ServesEntryBytes ==
    (/\ dlPc = "done"
     /\ swResponse # NoResponse
     /\ swResponse.fault = "none"
     /\ Len(swResponse.pathname) = Len(swResponse.request) + 1
     /\ Len(swResponse.request) >= 3
     /\ swResponse.request[1] = "scorm-content"
     /\ swResponse.request[2] = CourseId)
        => \A i \in 1..TotalFiles(dlArchive) :
              LET e == Archives[dlArchive][i]
              IN (~e.dir /\ e.path = SubSeq(swResponse.request, 3, Len(swResponse.request)))
                    => /\ swResponse.status = 200
                       /\ swResponse.body = FileBytes(e.content)
                       /\ swResponse.contentType = ContentType(e.path)

\* C25: when downloadCourse resolves for the archive the call before it
\* resolved for, nothing having been deleted in between, the store is as the
\* first of the two calls left it: the same files with the same contents,
\* the manifest record and the combined record included, and the same
\* directories.
C25_RedownloadIdempotent ==
    (dlPc = "done" /\ dlPrev = dlArchive)
        => /\ storeFiles = dlBefore.files
           /\ storeDirs = dlBefore.dirs
           /\ storeFiles[<<"manifest.json">>] = dlBefore.files[<<"manifest.json">>]
           /\ storeFiles[<<"course.json">>] = dlBefore.files[<<"course.json">>]

\* the second of two downloads of the archive with a directory has resolved
C25_Witness ==
    /\ dlPc = "done"
    /\ dlPrev = dlArchive
    /\ dlArchive = 2
    /\ dlBefore.files # NoFiles
    /\ <<"content", "index.html">> \in DOMAIN storeFiles

----------------------------------------------------------------------------
(* CoursePlayer: effects, events, and the pipwerks wrapper it drives *)

\* everything outside the bridge and the player
outsidePlayerVars == <<storeVars, dlVars, swResponse, libVars, catalogueVars,
                       manifestVars, findVars>>

instanceVars == <<mounted, paramId, playerCourse, playerIsLoading, pendingLoads, frame,
                  scormApiInitialized, scormContentLoaded, wrapperCleanup, loadSeen>>

\* no effect of a commit is waiting and no wrapper call is running:
\* the event loop can take the next event
Idle == effects = <<>> /\ wrapperPc = "idle"

\* room under the promise bounds for what an event's handlers start
Headroom(fetches, persists) ==
    /\ BagCardinality(pendingFetch) + fetches <= MaxFetch
    /\ pendingPersist + persists <= MaxPersist

\* persist promises resetLMSAPIService starts: one when its LMSFinish commits
ResetPersists == IF isInitialized /\ FinishCommits THEN 1 ELSE 0

\* persist promises pipwerks quit starts: LMSCommit and the commit of LMSFinish
QuitPersists ==
    IF pipwerks.isActive /\ isInitialized /\ FinishCommits THEN 2 ELSE 0

\* connection.initialize will reach the API: no connection is active, no
\* handle is cached and window.API is there to be found
HandshakeCalls == ~pipwerks.isActive /\ ~pipwerks.handle /\ apiInstalled

\* the guard of the wrapper effect without its scormContentLoaded conjunct
HandshakeDueUnloaded(apiInitialized, contentLoaded, iframe) ==
    apiInitialized /\ iframe # "none"

\* scormApiInitialized && scormContentLoaded && iframeRef.current?.contentWindow
HandshakeDue(apiInitialized, contentLoaded, iframe) ==
    apiInitialized /\ contentLoaded /\ iframe # "none"

\* the component mounts: every effect runs
PlayerMount(id) ==
    /\ Idle
    /\ ~mounted
    /\ mounted' = TRUE
    /\ paramId' = id
    /\ playerCourse' = "null"
    /\ playerIsLoading' = TRUE
    /\ pendingLoads' = 0
    /\ frame' = "none"
    /\ scormApiInitialized' = FALSE
    /\ scormContentLoaded' = FALSE
    /\ wrapperCleanup' = FALSE
    /\ loadSeen' = FALSE
    /\ effects' = <<"effect1", "effect2", "effect3">>
    /\ playerStep' = "mount"
    /\ UNCHANGED <<wrapperPc, pipwerks, bridgeVars>>

\* the component unmounts: the cleanups run in the order of their effects
PlayerUnmount ==
    /\ Idle
    /\ mounted
    /\ Headroom(0, ResetPersists)
    /\ mounted' = FALSE
    /\ playerCourse' = "null"
    /\ playerIsLoading' = TRUE
    /\ pendingLoads' = 0
    /\ frame' = "none"
    /\ scormApiInitialized' = FALSE
    /\ scormContentLoaded' = FALSE
    /\ wrapperCleanup' = FALSE
    /\ loadSeen' = FALSE
    /\ effects' = <<"cleanup1">> \o (IF wrapperCleanup THEN <<"cleanup3">> ELSE <<>>)
    /\ playerStep' = "unmount"
    /\ UNCHANGED <<paramId, wrapperPc, pipwerks, bridgeVars>>

\* the route parameter changes while the component stays mounted: the
\* effects depending on id run again
PlayerChangeId(id) ==
    /\ Idle
    /\ mounted
    /\ paramId # ""
    /\ id # ""
    /\ id # paramId
    /\ pendingLoads < MaxLoads
    /\ Headroom(0, ResetPersists)
    /\ paramId' = id
    /\ effects' = <<"cleanup1", "effect1", "effect2">>
    /\ playerStep' = "changeId"
    /\ UNCHANGED <<mounted, playerCourse, playerIsLoading, pendingLoads, frame,
                   scormApiInitialized, scormContentLoaded, wrapperCleanup, loadSeen,
                   wrapperPc, pipwerks, bridgeVars>>

\* loadCourseData continues after await getCourseContent(courseId)
loadCourseData(courseData) ==
    /\ Idle
    /\ mounted
    /\ pendingLoads > 0
    /\ pendingLoads' = pendingLoads - 1
    /\ playerIsLoading' = FALSE
    /\ IF courseData = "null"
       THEN /\ frame' = IF frame = "none" /\ playerCourse # "null" THEN "blank" ELSE frame
            /\ UNCHANGED <<playerCourse, effects>>
       ELSE /\ playerCourse' = courseData
            /\ frame' = IF frame = "none" THEN "blank" ELSE frame
            /\ effects' = <<"effect2">>
    /\ playerStep' = "loadCourseData"
    /\ UNCHANGED <<mounted, paramId, scormApiInitialized, scormContentLoaded,
                   wrapperCleanup, loadSeen, wrapperPc, pipwerks, bridgeVars>>

\* iframeRef.current.onload
FrameLoad ==
    /\ Idle
    /\ mounted
    /\ frame = "loading"
    /\ (~scormContentLoaded /\ HandshakeCalls) => Headroom(1, 1)
    /\ frame' = "loaded"
    /\ loadSeen' = TRUE
    /\ scormContentLoaded' = TRUE
    /\ playerIsLoading' = FALSE
    /\ effects' = IF scormContentLoaded THEN <<>>
                  ELSE (IF wrapperCleanup THEN <<"cleanup3">> ELSE <<>>) \o <<"effect3">>
    /\ playerStep' = "onload"
    /\ UNCHANGED <<mounted, paramId, playerCourse, pendingLoads, wrapperCleanup,
                   scormApiInitialized, wrapperPc, pipwerks, bridgeVars>>

\* iframeRef.current.onerror
FrameError ==
    /\ Idle
    /\ mounted
    /\ frame = "loading"
    /\ (scormContentLoaded /\ wrapperCleanup) => Headroom(0, QuitPersists)
    /\ frame' = "failed"
    /\ scormContentLoaded' = FALSE
    /\ playerIsLoading' = FALSE
    /\ effects' = IF ~scormContentLoaded THEN <<>>
                  ELSE (IF wrapperCleanup THEN <<"cleanup3">> ELSE <<>>) \o <<"effect3">>
    /\ playerStep' = "onerror"
    /\ UNCHANGED <<mounted, paramId, playerCourse, pendingLoads, wrapperCleanup,
                   scormApiInitialized, loadSeen, wrapperPc, pipwerks, bridgeVars>>

\* initializeScormWrapper up to its first call of the API: the attempt
\* with version "2004", then the attempt with version "1.2"
initializeScormWrapper ==
    IF pipwerks.isActive
    THEN \* both attempts: "aborted: Connection already active"
         /\ pipwerks' = [pipwerks EXCEPT !.version = "1.2"]
         /\ wrapperPc' = "idle"
    ELSE IF pipwerks.handle
    THEN \* the cached handle has no Initialize method: the call throws
         /\ pipwerks' = [pipwerks EXCEPT !.version = "2004"]
         /\ wrapperPc' = "idle"
    ELSE IF ~apiInstalled
    THEN /\ pipwerks' = [pipwerks EXCEPT !.version = "1.2"]
         /\ wrapperPc' = "idle"
    ELSE /\ pipwerks' = [pipwerks EXCEPT !.version = "1.2", !.handle = TRUE]
         /\ wrapperPc' = "initialize"

\* terminateScormWrapper up to its first call of the API
terminateScormWrapper ==
    /\ wrapperPc' = IF pipwerks.isActive /\ pipwerks.handle /\ pipwerks.version = "1.2"
                    THEN "exit" ELSE "idle"
    /\ UNCHANGED pipwerks

\* the next cleanup or effect body of the commit
RunEffect ==
    /\ effects # <<>>
    /\ wrapperPc = "idle"
    /\ effects' = Tail(effects)
    /\ CASE Head(effects) = "cleanup1" ->
              /\ resetLMSAPIService
              /\ scormApiInitialized' = FALSE
              /\ playerStep' = "cleanup1"
              /\ UNCHANGED <<mounted, paramId, playerCourse, playerIsLoading,
                             pendingLoads, frame, scormContentLoaded, wrapperCleanup,
                             loadSeen, wrapperPc, pipwerks>>
         [] Head(effects) = "effect1" ->
              /\ IF paramId # ""
                 THEN /\ initializeLMSAPIService(paramId, PlayerUserId)
                      /\ scormApiInitialized' = TRUE
                      /\ pendingLoads' = pendingLoads + 1
                 ELSE UNCHANGED <<bridgeVars, scormApiInitialized, pendingLoads>>
              /\ playerStep' = "effect1"
              /\ UNCHANGED <<mounted, paramId, playerCourse, playerIsLoading, frame,
                             scormContentLoaded, wrapperCleanup, loadSeen, wrapperPc,
                             pipwerks>>
         [] Head(effects) = "effect2" ->
              /\ IF playerCourse = "course" /\ frame # "none"
                 THEN /\ frame' = "loading"
                      /\ loadSeen' = FALSE
                      /\ playerStep' = "src"
                      /\ UNCHANGED playerIsLoading
                 ELSE /\ playerIsLoading' = IF playerCourse = "noLaunchUrl" THEN FALSE
                                            ELSE playerIsLoading
                      /\ playerStep' = "effect2"
                      /\ UNCHANGED <<frame, loadSeen>>
              /\ UNCHANGED <<mounted, paramId, playerCourse, pendingLoads,
                             scormApiInitialized, scormContentLoaded, wrapperCleanup,
                             wrapperPc, pipwerks, bridgeVars>>
         [] Head(effects) = "cleanup3" ->
              /\ terminateScormWrapper
              /\ wrapperCleanup' = FALSE
              /\ playerStep' = "cleanup3"
              /\ UNCHANGED <<mounted, paramId, playerCourse, playerIsLoading,
                             pendingLoads, frame, scormApiInitialized,
                             scormContentLoaded, loadSeen, bridgeVars>>
         [] Head(effects) = "effect3" ->
              /\ IF HandshakeDue(scormApiInitialized, scormContentLoaded, frame)
                 THEN /\ initializeScormWrapper
                      /\ wrapperCleanup' = TRUE
                      /\ playerStep' = "handshake"
                 ELSE /\ wrapperCleanup' = FALSE
                      /\ playerStep' = "effect3"
                      /\ UNCHANGED <<wrapperPc, pipwerks>>
              /\ UNCHANGED <<mounted, paramId, playerCourse, playerIsLoading,
                             pendingLoads, frame, scormApiInitialized,
                             scormContentLoaded, loadSeen, bridgeVars>>

\* the exit value pipwerks.SCORM.quit sets
ExitValue ==
    IF pipwerks.completionStatus \in {"completed", "passed"} THEN "logout" ELSE "suspend"

\* pipwerks connection.initialize and connection.terminate, one step per
\* call of the API
WrapperStep ==
    /\ wrapperPc # "idle"
    /\ CASE wrapperPc = "initialize" ->
              /\ LMSInitialize
              /\ wrapperPc' = IF call'.ret = "true" THEN "initCode" ELSE "initFailCode"
              /\ UNCHANGED pipwerks
         [] wrapperPc = "initCode" ->
              /\ LMSGetLastError
              /\ IF lastError = "0"
                 THEN /\ pipwerks' = [pipwerks EXCEPT !.isActive = TRUE]
                      /\ wrapperPc' = "status"
                 ELSE /\ wrapperPc' = "info"
                      /\ UNCHANGED pipwerks
         [] wrapperPc = "initFailCode" ->
              /\ LMSGetLastError
              /\ wrapperPc' = IF lastError # "0" THEN "info" ELSE "idle"
              /\ UNCHANGED pipwerks
         [] wrapperPc \in {"info", "finishInfo"} ->
              /\ LMSGetErrorString(lastError)
              /\ wrapperPc' = "idle"
              /\ UNCHANGED pipwerks
         [] wrapperPc = "status" ->
              /\ LMSGetValue("cmi.core.lesson_status")
              /\ wrapperPc' = IF call'.ret = THROWN THEN "idle" ELSE "statusCode"
              /\ UNCHANGED pipwerks
         [] wrapperPc = "statusCode" ->
              /\ LMSGetLastError
              /\ IF call.ret # "" \/ lastError = "0"
                 THEN /\ pipwerks' = [pipwerks EXCEPT !.completionStatus = call.ret]
                      /\ wrapperPc' = IF call.ret \in {"not attempted", "unknown"}
                                      THEN "set"
                                      ELSE IF call.ret # "" THEN "save" ELSE "idle"
                 ELSE /\ wrapperPc' = "info"
                      /\ UNCHANGED pipwerks
         [] wrapperPc = "set" ->
              /\ LMSSetValue("cmi.core.lesson_status", "incomplete")
              /\ IF call'.ret = "true"
                 THEN /\ pipwerks' = [pipwerks EXCEPT !.completionStatus = "incomplete"]
                      /\ wrapperPc' = "save"
                 ELSE /\ wrapperPc' = "setCode"
                      /\ UNCHANGED pipwerks
         [] wrapperPc \in {"setCode", "exitCode", "finishCode"} ->
              /\ LMSGetLastError
              /\ wrapperPc' = CASE wrapperPc = "setCode" -> "setInfo"
                                [] wrapperPc = "exitCode" -> "exitInfo"
                                [] OTHER -> "finishInfo"
              /\ UNCHANGED pipwerks
         [] wrapperPc = "setInfo" ->
              /\ LMSGetErrorString(lastError)
              /\ wrapperPc' = "save"
              /\ UNCHANGED pipwerks
         [] wrapperPc = "save" ->
              /\ LMSCommit
              /\ wrapperPc' = "idle"
              /\ UNCHANGED pipwerks
         [] wrapperPc = "exit" ->
              /\ LMSSetValue("cmi.core.exit", ExitValue)
              /\ wrapperPc' = IF call'.ret = "true" THEN "quitSave" ELSE "exitCode"
              /\ UNCHANGED pipwerks
         [] wrapperPc = "exitInfo" ->
              /\ LMSGetErrorString(lastError)
              /\ wrapperPc' = "quitSave"
              /\ UNCHANGED pipwerks
         [] wrapperPc = "quitSave" ->
              /\ LMSCommit
              /\ wrapperPc' = IF call'.ret = "true" THEN "finish" ELSE "idle"
              /\ UNCHANGED pipwerks
         [] wrapperPc = "finish" ->
              /\ LMSFinish
              /\ IF call'.ret = "true"
                 THEN /\ pipwerks' = [pipwerks EXCEPT !.isActive = FALSE]
                      /\ wrapperPc' = "idle"
                 ELSE /\ wrapperPc' = "finishCode"
                      /\ UNCHANGED pipwerks
    /\ playerStep' = "wrapper"
    /\ UNCHANGED <<instanceVars, effects>>

\* a promise of the bridge settles, or the content in the loaded frame
\* calls the API it found in the hosting window
PlayerBridgeStep(A, step) ==
    /\ Idle
    /\ A
    /\ playerStep' = step
    /\ UNCHANGED <<instanceVars, effects, wrapperPc, pipwerks>>

ContentCanCall == mounted /\ frame = "loaded" /\ apiInstalled

NextPlayer ==
    \/ (\E id \in PlayerIds : PlayerMount(id)) /\ UNCHANGED outsidePlayerVars
    \/ PlayerUnmount /\ UNCHANGED outsidePlayerVars
    \/ (\E id \in PlayerIds : PlayerChangeId(id)) /\ UNCHANGED outsidePlayerVars
    \/ (\E d \in CourseData : loadCourseData(d)) /\ UNCHANGED outsidePlayerVars
    \/ FrameLoad /\ UNCHANGED outsidePlayerVars
    \/ FrameError /\ UNCHANGED outsidePlayerVars
    \/ RunEffect /\ UNCHANGED outsidePlayerVars
    \/ WrapperStep /\ UNCHANGED outsidePlayerVars
    \/ PlayerBridgeStep(FetchThen, "promise") /\ UNCHANGED outsidePlayerVars
    \/ PlayerBridgeStep(PersistThen(TRUE), "promise") /\ UNCHANGED outsidePlayerVars
    \/ (ContentCanCall /\ PlayerBridgeStep(LMSInitialize, "content"))
           /\ UNCHANGED outsidePlayerVars
    \/ (ContentCanCall
           /\ PlayerBridgeStep(LMSSetValue("cmi.core.lesson_status", "completed"),
                               "content"))
           /\ UNCHANGED outsidePlayerVars
    \/ (ContentCanCall /\ PlayerBridgeStep(LMSFinish, "content"))
           /\ UNCHANGED outsidePlayerVars

SpecPlayer == Init /\ [][NextPlayer]_vars

TypeOKPlayer ==
    /\ mounted \in BOOLEAN
    /\ paramId \in PlayerIds
    /\ playerCourse \in CourseData
    /\ playerIsLoading \in BOOLEAN
    /\ pendingLoads \in 0..MaxLoads
    /\ frame \in {"none", "blank", "loading", "loaded", "failed"}
    /\ scormApiInitialized \in BOOLEAN
    /\ scormContentLoaded \in BOOLEAN
    /\ wrapperCleanup \in BOOLEAN
    /\ pipwerks.version \in {"null", "1.2", "2004"}
    /\ pipwerks.handle \in BOOLEAN
    /\ pipwerks.isActive \in BOOLEAN
    /\ loadSeen \in BOOLEAN

----------------------------------------------------------------------------
(* Claims on the CoursePlayer session *)

\* C26: in a CoursePlayer session window.API is installed when the content
\* frame's src is assigned, and initializeScormWrapper is attempted only
\* after the load event of the src last assigned has been observed and
\* while window.API is installed.
C26_InstallSrcLoadHandshake ==
    [][/\ playerStep' = "src" => (apiInstalled /\ currentCourseId = paramId)
       /\ playerStep' = "handshake" => (loadSeen /\ frame = "loaded" /\ apiInstalled)]_vars

\* the handshake is about to call LMSInitialize on the installed API of a
\* frame whose load event was observed
C26_Witness ==
    /\ playerStep = "handshake"
    /\ wrapperPc = "initialize"
    /\ frame = "loaded"
    /\ loadSeen
    /\ apiInstalled

----------------------------------------------------------------------------
(* saveMetadata / saveCategories, and the store with its catalogue files *)

SmMetaPhase == {"ensure", "metaOpen", "metaWritten"}
SmCatPhase == {"catEnsure", "catOpen", "catWritten"}

\* saveMetadata(courses) begins
SmStart(courses) ==
    /\ smPc = "idle"
    /\ smPc' = "ensure"
    /\ smArg' = courses
    /\ smOpen' = {}
    /\ dlStep' = "saveMetadata"
    /\ UNCHANGED <<rootFiles, otherCourse>>

\* the next await of saveMetadata, then of the saveCategories it calls:
\* ensureDirectory / getFileHandle(.., {create: true}) / createWritable,
\* write, close
SmStep ==
    /\ smPc \in SmMetaPhase \cup SmCatPhase
    /\ CASE smPc \in {"ensure", "catEnsure"} ->
              LET name == IF smPc = "ensure" THEN METADATA_FILE ELSE CATEGORIES_FILE
              IN  /\ opfsDir' = TRUE
                  /\ rootFiles' = [rootFiles EXCEPT ![name] =
                                      IF @ = "absent" THEN "empty" ELSE @]
                  /\ smOpen' = smOpen \cup {name}
                  /\ smPc' = IF smPc = "ensure" THEN "metaOpen" ELSE "catOpen"
         [] smPc \in {"metaOpen", "catOpen"} ->
              /\ smPc' = IF smPc = "metaOpen" THEN "metaWritten" ELSE "catWritten"
              /\ UNCHANGED <<opfsDir, rootFiles, smOpen>>
         [] smPc \in {"metaWritten", "catWritten"} ->
              LET name == IF smPc = "metaWritten" THEN METADATA_FILE
                          ELSE CATEGORIES_FILE
              IN  /\ rootFiles' = [rootFiles EXCEPT ![name] = smArg]
                  /\ smOpen' = smOpen \ {name}
                  /\ smPc' = IF smPc = "metaWritten" THEN "catEnsure" ELSE "done"
                  /\ UNCHANGED opfsDir
    /\ dlStep' = "saveMetadata"
    /\ UNCHANGED <<otherCourse, smArg>>

\* an await rejects: saveMetadata's catch block rethrows, saveCategories'
\* catch block logs and lets saveMetadata resolve
SmFail ==
    /\ smPc \in SmMetaPhase \cup SmCatPhase
    /\ smPc' = IF smPc \in SmMetaPhase THEN "failed" ELSE "done"
    /\ dlStep' = "saveMetadataCatch"
    /\ UNCHANGED <<opfsDir, rootFiles, otherCourse, smOpen, smArg>>

\* the caller has seen the promise settle; the call's locals are gone
SmReturn ==
    /\ smPc \in {"done", "failed"}
    /\ smPc' = "idle"
    /\ smOpen' = {}
    /\ smArg' = "v1"
    /\ dlStep' = "saveMetadataReturn"
    /\ UNCHANGED <<opfsDir, rootFiles, otherCourse>>

\* downloadCourse for the other course has created its directory
OtherCourseDownloaded ==
    /\ ~otherCourse
    /\ otherCourse' = TRUE
    /\ opfsDir' = TRUE
    /\ dlStep' = "downloadOther"
    /\ UNCHANGED <<rootFiles, smPc, smOpen, smArg>>

\* the variables the catalogue steps leave alone
pipelineVars == <<storeDir, storeDirs, storeFiles, dlPc, dlOpen, dlArchive,
                  dlContentLength, dlRemaining, dlReceived, dlManifest, dlNextEntry,
                  dlExtracted, dlProgress, dlFailedAt, dlPrev, dlBefore, swResponse>>

\* the course directory handle downloadCourse holds still names a directory
CourseDirUsable == dlPc \in {"idle", "started"} \/ storeDir

\* archives downloaded next to the catalogue steps
CatalogueArchives == {5}

outsideCatalogueVars == <<bridgeVars, libVars, playerVars, manifestVars, findVars>>

NextCatalogue ==
    \/ (smPc = "idle" /\ DlStart) /\ UNCHANGED nonStoreVars
    \/ DlEnsureDir /\ UNCHANGED nonStoreVars
    \/ (\E ok \in BOOLEAN, a \in CatalogueArchives : DlResponse(ok, MaxBytes, a))
           /\ UNCHANGED nonStoreVars
    \/ (CourseDirUsable /\ DlOpenZip) /\ UNCHANGED nonStoreVars
    \/ (CourseDirUsable /\ DlReadChunk(MaxBytes)) /\ UNCHANGED nonStoreVars
    \/ (CourseDirUsable /\ DlReadDone) /\ UNCHANGED nonStoreVars
    \/ (CourseDirUsable /\ DlCloseZip) /\ UNCHANGED nonStoreVars
    \/ (CourseDirUsable /\ DlLoadZip) /\ UNCHANGED nonStoreVars
    \/ (CourseDirUsable /\ DlParseManifest) /\ UNCHANGED nonStoreVars
    \/ (CourseDirUsable /\ DlSaveManifest) /\ UNCHANGED nonStoreVars
    \/ (CourseDirUsable /\ DlExtractEntry) /\ UNCHANGED nonStoreVars
    \/ (CourseDirUsable /\ DlSaveCourse) /\ UNCHANGED nonStoreVars
    \/ DlFail /\ UNCHANGED nonStoreVars
    \/ DlReturn /\ UNCHANGED nonStoreVars
    \/ (\E c \in {CourseId, OtherCourseId}, e \in DeleteErrors, partial \in BOOLEAN :
            deleteCourseDownload(c, e, partial))
           /\ UNCHANGED outsideCatalogueVars
    \/ (dlPc = "idle" /\ \E courses \in CourseLists : SmStart(courses))
           /\ UNCHANGED <<pipelineVars, opfsDir, outsideCatalogueVars>>
    \/ SmStep /\ UNCHANGED <<pipelineVars, outsideCatalogueVars>>
    \/ SmFail /\ UNCHANGED <<pipelineVars, outsideCatalogueVars>>
    \/ SmReturn /\ UNCHANGED <<pipelineVars, outsideCatalogueVars>>
    \/ (dlPc = "idle" /\ smPc = "idle" /\ OtherCourseDownloaded)
           /\ UNCHANGED <<pipelineVars, outsideCatalogueVars>>

SpecCatalogue == Init /\ [][NextCatalogue]_vars

TypeOKCatalogue ==
    /\ \A n \in DOMAIN rootFiles : rootFiles[n] \in {"absent", "empty"} \cup CourseLists
    /\ otherCourse \in BOOLEAN
    /\ smPc \in {"idle", "done", "failed"} \cup SmMetaPhase \cup SmCatPhase
    /\ smOpen \subseteq {METADATA_FILE, CATEGORIES_FILE}
    /\ smArg \in CourseLists

----------------------------------------------------------------------------
(* Claims on removal and on write handles *)

\* C27: a deleteCourseDownload(courseId) that resolves has removed the whole
\* subtree of the course, so that isCourseDownloaded is false and
\* getCourseContent is null right after it; otherwise it rejects; resolved
\* or rejected, it leaves the other course's directory, metadata.json and
\* categories.json as they were.
C27_DeleteAllOrReject ==
    [][/\ dlStep' = "delete" =>
            /\ ~storeDir' /\ storeDirs' = {} /\ storeFiles' = NoFiles
            /\ ~isCourseDownloaded'
            /\ getCourseContent' = NoContent
       /\ dlStep' \in {"delete", "deleteRejected"} =>
            /\ otherCourse' = otherCourse
            /\ rootFiles' = rootFiles
       /\ dlStep' = "deleteOther" => ~otherCourse'
       /\ dlStep' \in {"deleteOther", "deleteOtherRejected"} =>
            /\ storeDir' = storeDir /\ storeDirs' = storeDirs
            /\ storeFiles' = storeFiles
            /\ rootFiles' = rootFiles]_vars

\* the course was removed while its download was extracting, next to
\* another course and a saved catalogue
C27_Witness ==
    /\ dlStep = "delete"
    /\ dlPc = "extracting"
    /\ ~storeDir
    /\ otherCourse
    /\ rootFiles[METADATA_FILE] \in CourseLists
    /\ rootFiles[CATEGORIES_FILE] \in CourseLists

\* C28: when downloadCourse or saveMetadata (with the saveCategories it
\* calls) has returned or rejected, no writable stream the call created is
\* still open.
C28_HandlesClosedOnExit ==
    /\ dlPc \in {"done", "failed"} => dlOpen = {}
    /\ smPc \in {"done", "failed"} => smOpen = {}

----------------------------------------------------------------------------
(* parseScormManifest applied to every document of Manifests *)

InitManifests ==
    /\ InitModule
    /\ manifestDoc \in Manifests
    /\ manifestResult = Pending

\* the call returns or throws
ParseManifest ==
    /\ manifestResult = Pending
    /\ manifestResult' = parseScormManifestDocument(manifestDoc)
    /\ UNCHANGED manifestDoc

outsideManifestVars ==
    <<bridgeVars, storeVars, dlVars, swResponse, libVars, playerVars, catalogueVars,
      findVars>>

NextManifest == ParseManifest /\ UNCHANGED outsideManifestVars

SpecManifest == InitManifests /\ [][NextManifest]_vars

\* the first item in document order that carries a reference, 0 when
\* there is none: document order is depth-first pre-order
FirstReferenced(s) ==
    IF \E i \in 1..Len(s) : s[i].ref # ""
    THEN CHOOSE i \in 1..Len(s) :
             s[i].ref # "" /\ \A j \in 1..(i - 1) : s[j].ref = ""
    ELSE 0

\* the document reaches the search for the launch item
SearchesItems(doc) ==
    doc.root /\ doc.organizations /\ DefaultOrganization(doc).items # <<>>

\* the launch item the call would report for a document whose every
\* reference resolves
AllResolve == <<Resource("r1", "a.html"), Resource("r2", "b.html")>>

\* C29: the launch item parseScormManifest selects is the first item with
\* a reference in depth-first pre-order over the default organization's
\* item tree, for every shape of the tree.
C29_LaunchItemIsFirstReferenced ==
    (manifestResult # Pending /\ SearchesItems(manifestDoc)
        /\ manifestDoc.resources = AllResolve)
    => /\ manifestResult.ok = (FirstReferenced(DefaultOrganization(manifestDoc).items) # 0)
       /\ manifestResult.launchItem
              = FirstReferenced(DefaultOrganization(manifestDoc).items)

\* which of the four failure cases a document falls under, "none" when
\* its first referenced item resolves to a resource with an href
FailureCase(doc) ==
    IF ~doc.root THEN "root"
    ELSE IF ~doc.organizations THEN "organizations"
    ELSE LET items == DefaultOrganization(doc).items
         IN  IF FirstReferenced(items) = 0 THEN "item"
             ELSE IF LaunchHref(doc.resources, items[FirstReferenced(items)].ref) = ""
             THEN "resource"
             ELSE "none"

\* one document for each failure case
CaseExamples ==
    {NoRoot,
     Document(TRUE, Undeclared, FALSE, "", <<>>, FALSE, AllResolve),
     Document(TRUE, Undeclared, TRUE, "", <<[depth |-> 1, ref |-> ""]>>, FALSE, AllResolve),
     Document(TRUE, Undeclared, TRUE, "", <<[depth |-> 1, ref |-> "r1"]>>, FALSE, <<>>)}

\* C30: parseScormManifest fails in each of the four cases, with a reason
\* that no document of another case fails with.
C30_FailureReasonsDistinct ==
    (manifestResult # Pending /\ FailureCase(manifestDoc) # "none")
    => /\ ~manifestResult.ok
       /\ \A e \in CaseExamples :
              FailureCase(e) # FailureCase(manifestDoc)
              => parseScormManifestDocument(e).reason # manifestResult.reason

----------------------------------------------------------------------------
(* downloadCourse on an archive whose imsmanifest.xml is manifestDoc *)

\* the descriptor JSON.stringify(manifest) records
Descriptor(result) ==
    [ok |-> result.ok, launchUrl |-> result.launchUrl, version |-> result.version]

\* the archive's entries apart from the manifest: those of the first archive
PackageArchive == 1

\* zip.file('imsmanifest.xml') finds the entry and parseScormManifest
\* returns the descriptor or throws
DlParseDocument ==
    /\ dlPc = "zipLoaded"
    /\ LET m == parseScormManifestDocument(manifestDoc)
       IN IF m.ok
          THEN /\ dlPc' = "parsed"
               /\ dlManifest' = Descriptor(m)
               /\ dlStep' = "parseManifest"
               /\ UNCHANGED dlFailedAt
          ELSE /\ dlPc' = "failed"
               /\ dlFailedAt' = "zipLoaded"
               /\ dlStep' = "invalidPackage"
               /\ UNCHANGED dlManifest
    /\ UNCHANGED <<storeVars, dlOpen, dlArchive, dlContentLength, dlRemaining,
                   dlReceived, dlNextEntry, dlExtracted, dlProgress, dlPrev,
                   dlBefore, swResponse>>

NextPackage ==
    \/ DlStart /\ UNCHANGED nonStoreVars
    \/ DlEnsureDir /\ UNCHANGED nonStoreVars
    \/ (\E ok \in BOOLEAN : DlResponse(ok, MaxBytes, PackageArchive))
           /\ UNCHANGED nonStoreVars
    \/ DlOpenZip /\ UNCHANGED nonStoreVars
    \/ DlReadChunk(MaxBytes) /\ UNCHANGED nonStoreVars
    \/ DlReadDone /\ UNCHANGED nonStoreVars
    \/ DlCloseZip /\ UNCHANGED nonStoreVars
    \/ DlLoadZip /\ UNCHANGED nonStoreVars
    \/ DlParseDocument /\ UNCHANGED nonStoreVars
    \/ DlSaveManifest /\ UNCHANGED nonStoreVars
    \/ DlExtractEntry /\ UNCHANGED nonStoreVars
    \/ DlSaveCourse /\ UNCHANGED nonStoreVars
    \/ DlFail /\ UNCHANGED nonStoreVars
    \/ DlReturn /\ UNCHANGED nonStoreVars

\* the manifests of the archives: one organization, no default attribute
PackageManifests == {d \in Manifests : d.default = "" /\ ~d.second}

InitPackage ==
    /\ InitModule
    /\ manifestDoc \in PackageManifests
    /\ manifestResult = Pending

SpecPackage == InitPackage /\ [][NextPackage]_vars

\* the descriptors in the records manifest.json and course.json
PersistedDescriptors ==
    {storeFiles[p][2] :
        p \in {q \in DOMAIN storeFiles :
                  storeFiles[q][1] \in {"manifest.json", "course.json"}}}

\* C31: every manifest record and course+manifest record downloadCourse
\* persists has a non-empty launchUrl and the version "1.2" or "2004"; and
\* for an archive whose manifest names a resolvable launch resource the
\* parse step does not reject the package, and the completed call has
\* persisted both records.
C31_PersistsValidDescriptor ==
    /\ \A m \in PersistedDescriptors :
           m.launchUrl # "" /\ m.version \in {"1.2", "2004"}
    /\ FailureCase(manifestDoc) = "none" =>
           /\ dlStep # "invalidPackage"
           /\ dlPc = "done" =>
                  /\ <<"manifest.json">> \in DOMAIN storeFiles
                  /\ <<"course.json">> \in DOMAIN storeFiles
                  /\ PersistedDescriptors # {}

\* the first half alone: what is persisted is a valid descriptor
C31_PersistedAreValid ==
    \A m \in PersistedDescriptors :
        m.launchUrl # "" /\ m.version \in {"1.2", "2004"}

----------------------------------------------------------------------------
(* parseScormManifest on the schema version declarations *)

MaxPieces == 3     \* pieces a declaration is put together from

\* pieces of declarations: tokens, parts of tokens, and text around them
Pieces ==
    {<<"1", ".", "2">>, <<"2", "0", "0", "4">>, <<"C", "A", "M">>, <<" ">>,
     <<"1", ".", "3">>, <<"C", "a", "m", "1">>, <<".", "3">>, <<"0">>, <<"x">>}

RECURSIVE Concat(_)
\* the pieces of a sequence of pieces, written one after the other
Concat(ps) == IF ps = <<>> THEN <<>> ELSE Head(ps) \o Concat(Tail(ps))

\* the declared texts, the empty element included
Declarations ==
    {Concat(ps) : ps \in UNION {[1..n -> Pieces] : n \in 0..MaxPieces}}

\* a manifest that launches, with the declaration sv
VersionDocument(sv) ==
    Document(TRUE, sv, TRUE, "", <<[depth |-> 1, ref |-> "r1"]>>, FALSE,
             <<Resource("r1", "a.html")>>)

InitVersion ==
    /\ InitModule
    /\ manifestDoc \in {VersionDocument(sv) :
                           sv \in {Undeclared} \cup {Declared(d) : d \in Declarations}}
    /\ manifestResult = Pending

SpecVersion == InitVersion /\ [][NextManifest]_vars

\* the tags of the known tokens a declared text contains, upper and lower
\* case taken as equal
TagsNamed(text) ==
    {tag \in {"1.2", "2004"} :
        \E token \in (IF tag = "1.2" THEN {Token12}
                      ELSE {Token2004, TokenCam13, TokenCam13Joined}) :
            \E i \in 0..(Len(text) - Len(token)) :
                \A k \in 1..Len(token) :
                    \/ text[i + k] = token[k]
                    \/ \E c \in 1..26 : text[i + k] = UpperCase[c] /\ token[k] = LowerCase[c]}

----------------------------------------------------------------------------
(* Claims on the progress values of the download phase *)

\* the values the extraction loop can report for the archive
ExtractionValues ==
    {ExtractProgress(k, TotalFiles(dlArchive)) : k \in 1..TotalFiles(dlArchive)}

\* C33: when the response declares no Content-Length or a Content-Length of
\* zero, downloadCourse reports only the extraction half: every value
\* handed to onProgress is a percentage and comes from the extraction
\* formula 50 + round(extracted / total * 50), none from the download loop.
C33_ZeroLengthExtractionOnly ==
    dlContentLength = 0 =>
        \A i \in DOMAIN dlProgress :
            /\ ~dlProgress[i].inf
            /\ dlProgress[i].n \in 0..100
            /\ dlProgress[i] \in ExtractionValues

\* C34: every value reported during the download phase is at most 50,
\* also when the response delivers more bytes than it declared.
C34_DownloadHalfAtMostFifty ==
    (dlPc = "reading" /\ dlContentLength > 0) =>
        \A i \in DOMAIN dlProgress :
            ~dlProgress[i].inf /\ dlProgress[i].n <= 50

----------------------------------------------------------------------------
(* Claims on the background fetch and on sessions *)

\* C35: when the fetch of prior data started by LMSInitialize fails, the
\* session is not Initialized once the failure has been processed
\* (isInitialized is false) and the last-error register holds "101".
C35_FailedFetchNotInitialized ==
    (call.op = "FetchCatch" /\ ~call.reinit) =>
        /\ ~isInitialized
        /\ lastError = "101"

\* the callbacks of the background fetch and persist
Completions == {"FetchThen", "FetchCatch", "PersistThen", "PersistCatch"}

\* C36: sessions are isolated: after resetLMSAPIService or a new
\* initializeLMSAPIService, and before the new session's own LMSInitialize,
\* the completion of a fetch or persist started in an earlier session
\* changes neither the data model nor the initialized flag nor the error
\* register; the new session does not become Initialized by it.
C36_SessionsIsolated ==
    [][(phase = "Uninitialized" /\ call'.op \in Completions)
         => /\ lmsData' = lmsData
            /\ isInitialized' = isInitialized
            /\ lastError' = lastError]_vars

----------------------------------------------------------------------------
(* Claims on the teardown of a CoursePlayer session *)

\* C37: when a CoursePlayer session whose wrapper handshake succeeded has
\* been torn down (the cleanups resetLMSAPIService and
\* terminateScormWrapper have both run), the bridge has accepted the exit
\* value the wrapper set and the pipwerks connection is inactive, so that
\* the handshake of a later session is not refused.
C37_TeardownClosesConnection ==
    [][/\ (~mounted /\ wrapperPc = "exit") => call'.ret = "true"
       /\ (~mounted' /\ Idle') => ~pipwerks'.isActive]_vars

----------------------------------------------------------------------------
(* Claims on the library while a download is running *)

\* C38: while downloadCourse for a course is in flight the status the
\* library shows for it is never 'downloaded', whatever syncCourses and
\* loadCourses do in between; it becomes 'downloaded' only after the call
\* has resolved: no step that leaves the course's one call in flight turns
\* its status into 'downloaded'.
C38_NotDownloadedWhileInFlight ==
    [][\A c \in LibCourseIds :
           (InFlight(c) = 1 /\ InFlight(c)' = 1 /\ downloadStatuses[c] # "downloaded")
           => downloadStatuses'[c] # "downloaded"]_vars

----------------------------------------------------------------------------
(* Claims on the record the player reads back *)

\* courseData && courseData.manifest: the record downloadCourse wrote
HasManifest(content) == content[1] = "course.json" /\ content[2].ok

\* the non-directory entries of the archive last received are in the store
EntriesPresent ==
    \A i \in 1..Len(Archives[dlArchive]) :
        ~Archives[dlArchive][i].dir => Archives[dlArchive][i].path \in DOMAIN storeFiles

\* C39: whenever getCourseContent returns a record with a manifest, the
\* downloadCourse call started last for the course has run to completion
\* and every non-directory entry of its archive is in the store, after any
\* sequence of successful, failed and repeated downloads and deletes; read
\* here in the states in which no call is running.
C39_ContentMeansComplete ==
    (dlPc \in {"idle", "done", "failed"} /\ HasManifest(getCourseContent)) =>
        /\ dlPc # "failed"
        /\ dlFailedAt = "none"
        /\ EntriesPresent

----------------------------------------------------------------------------
(* pipwerks.SCORM.API.find *)

\* find(win) is called with scorm.version as the caller left it
FindCall(arrangement, version) ==
    /\ findPc = "idle"
    /\ windows' = arrangement
    /\ findVersion' = version
    /\ findGiven' = version
    /\ findWin' = 1
    /\ findAttempts' = 0
    /\ findPc' = "called"
    /\ UNCHANGED findApi

\* the condition of the while loop
FindWalksOn ==
    /\ ~windows[findWin].API /\ ~windows[findWin].API_1484_11
    /\ windows[findWin].parent # 0
    /\ windows[findWin].parent # findWin
    /\ findAttempts <= findAttemptLimit

\* one round of the loop
FindHop ==
    /\ findPc = "called"
    /\ FindWalksOn
    /\ findAttempts' = findAttempts + 1
    /\ findWin' = windows[findWin].parent
    /\ UNCHANGED <<windows, findVersion, findPc, findApi, findGiven>>

\* a selection that looks for the older dialect first
FindSelectLegacyFirst(win, version) ==
    CASE version = "2004" ->
             IF windows[win].API_1484_11 THEN ApiOf(win, "API_1484_11") ELSE NoApi
      [] version = "1.2" ->
             IF windows[win].API THEN ApiOf(win, "API") ELSE NoApi
      [] OTHER ->
             IF windows[win].API THEN ApiOf(win, "API")
             ELSE IF windows[win].API_1484_11 THEN ApiOf(win, "API_1484_11")
             ELSE NoApi

\* the object selected at the window the loop stopped at
FindSelect(win, version) ==
    CASE version = "2004" ->
             IF windows[win].API_1484_11 THEN ApiOf(win, "API_1484_11") ELSE NoApi
      [] version = "1.2" ->
             IF windows[win].API THEN ApiOf(win, "API") ELSE NoApi
      [] OTHER ->
             IF windows[win].API_1484_11 THEN ApiOf(win, "API_1484_11")
             ELSE IF windows[win].API THEN ApiOf(win, "API")
             ELSE NoApi

\* the loop is left: the object is selected, scorm.version is set when it
\* was not, and find returns
FindReturn ==
    /\ findPc = "called"
    /\ ~FindWalksOn
    /\ findApi' = FindSelect(findWin, findVersion)
    /\ findVersion' = IF findVersion = "null" /\ findApi' # NoApi
                      THEN (IF findApi'.object = "API_1484_11" THEN "2004" ELSE "1.2")
                      ELSE findVersion
    /\ findPc' = "returned"
    /\ UNCHANGED <<windows, findWin, findAttempts, findGiven>>

outsideFindVars == <<bridgeVars, storeVars, dlVars, swResponse, libVars, playerVars,
                     catalogueVars, manifestVars>>

NextFind ==
    \/ (findPc = "idle"
           /\ \E arrangement \in WindowArrangements, version \in FindVersions :
                  FindCall(arrangement, version)) /\ UNCHANGED outsideFindVars
    \/ FindHop /\ UNCHANGED outsideFindVars
    \/ FindReturn /\ UNCHANGED outsideFindVars

SpecFind == Init /\ [][NextFind]_vars

\* C40: API.find terminates for every chain of windows, circular ones
\* included, after at most findAttemptLimit + 1 parent hops (the count of
\* hops never exceeds that number, and at that number the loop is left);
\* without a
\* preselected version it returns the API_1484_11 object of the window it
\* stopped at if there is one, else that window's API object, else null;
\* with a preselected version it returns that dialect's object of the
\* window or null.
C40_FindTerminates ==
    /\ findAttempts <= findAttemptLimit + 1
    /\ (findPc = "called" /\ findAttempts = findAttemptLimit + 1) => ~FindWalksOn
    /\ findPc = "returned" =>
            LET w == windows[findWin]
            IN  findApi =
                  CASE findGiven = "2004" ->
                           IF w.API_1484_11 THEN ApiOf(findWin, "API_1484_11") ELSE NoApi
                    [] findGiven = "1.2" ->
                           IF w.API THEN ApiOf(findWin, "API") ELSE NoApi
                    [] OTHER ->
                           IF w.API_1484_11 THEN ApiOf(findWin, "API_1484_11")
                           ELSE IF w.API THEN ApiOf(findWin, "API")
                           ELSE NoApi

\* a call on windows that run in a circle has returned null after
\* findAttemptLimit + 1 hops
C40_Witness ==
    /\ findPc = "returned"
    /\ findAttempts = findAttemptLimit + 1
    /\ findApi = NoApi

====
